---- MODULE Spec2Model ----
(***************************************************************************)
(* State-machine model of the Flask + SQLite teaching applications:        *)
(* the school store point of sale (04-school-store), the student project   *)
(* tracker (06-student-project-tracker) and the register / login / logout  *)
(* routes of the apps that have them.                                      *)
(*                                                                         *)
(* Each route handler is one action.  A handler's database work is         *)
(* computed statement by statement on a working copy of the tables (the    *)
(* connection's open transaction); the action ends with the copy           *)
(* committed or rolled back, as the handler does.                          *)
(***************************************************************************)
EXTENDS Integers, Sequences, FiniteSets, TLC

VARIABLES
    app,          \* which application this process runs
    now,          \* wall clock, in ticks (TicksPerSecond ticks to a second)
    users,        \* users table: sequence of rows in rowid order
    session,      \* the browser's Flask session: a dict (function on its keys)
    resp,         \* outcome of the last request, with the state it started from
    products,     \* store: products table, id -> row
    sales,        \* store: sales table, in rowid order
    sale_items,   \* store: sale_items table, in rowid order
    today,        \* tracker: date.today(), as a day ordinal
    projects,     \* tracker: projects table
    checkpoints,  \* tracker: checkpoints table
    tables,       \* every other table of the app's SQLite file: name -> rows
    conns,        \* connections that handlers opened and have not closed
    requests,     \* store: checkout requests in flight on concurrent workers
    fs            \* starter template: the files update_database.py works on

vars == <<app, now, users, session, resp,
          products, sales, sale_items, today, projects, checkpoints,
          tables, conns, requests, fs>>

clockVars   == <<now>>
authVars    == <<users, session>>
storeVars   == <<products, sales, sale_items>>
trackerVars == <<today, projects, checkpoints>>
restVars    == <<tables, conns, requests, fs>>

-----------------------------------------------------------------------------
(* Bounds of the model *)

MaxTime        == 2     \* the clock stops after this many ticks
TicksPerSecond == 2     \* clock resolution: instants per wall-clock second
MaxCart        == 2     \* longest cart a checkout request carries
MaxItems       == 2     \* basic CRUD app: items ever created
MaxTodos       == 2     \* todo list: todos ever created
MaxClasses     == 1     \* project tracker: classes ever created
MaxConns       == 2     \* connections left open at one time
MaxRuns        == 2     \* discussion board: times the initializer is run again
MaxTickets     == 1     \* help desk: tickets ever created
MaxResponses   == 2     \* help desk: responses ever added
MaxComments    == 2     \* blog: comments ever added
MaxLikes       == 2     \* discussion board: likes ever inserted
MaxViews       == 1     \* blog: times a post is viewed
MaxThreads     == 2     \* discussion board: threads ever created
MaxPosts       == 2     \* discussion board: reply posts ever created

-----------------------------------------------------------------------------
(* Python / SQL values *)

NULL == "NULL"                       \* Python None, SQL NULL

EmptyDict == [k \in {} |-> NULL]     \* {} ; also session.clear()

DictSet(d, key, val) ==
    [k \in DOMAIN d \cup {key} |-> IF k = key THEN val ELSE d[k]]

\* `not session.get('user_id')` is false: the key is there and truthy
HasUserId(s) == "user_id" \in DOMAIN s /\ s["user_id"] # 0

\* A text value is the sequence of its pieces: " " is a whitespace character,
\* any other piece a run of non-whitespace characters; '' is <<>>
RECURSIVE lstrip(_)
lstrip(str) == IF str # <<>> /\ Head(str) = " " THEN lstrip(Tail(str)) ELSE str

RECURSIVE rstrip(_)
rstrip(str) ==
    IF str # <<>> /\ str[Len(str)] = " "
    THEN rstrip(SubSeq(str, 1, Len(str) - 1))
    ELSE str

\* Mutant of strip: trailing whitespace is kept
strip_LeadingOnly(str) == lstrip(str)

\* str.strip()
strip(str) == rstrip(lstrip(str))

RECURSIVE SeqSum(_)
SeqSum(s) == IF s = <<>> THEN 0 ELSE SeqSum(SubSeq(s, 1, Len(s) - 1)) + s[Len(s)]

-----------------------------------------------------------------------------
(* 04-school-store *)

\* datetime.now().strftime('%Y%m%d%H%M%S'): the instant cut to its second
strftime_seconds(t) == t \div TicksPerSecond

generate_transaction_id(t) == <<"TXN", strftime_seconds(t)>>

\* The tables one connection sees: committed rows plus its own open transaction
StoreDb == [products |-> products, sales |-> sales, sale_items |-> sale_items]

\* Mutant of total_amount: the quantity is left out of the sum
total_amount_PricesOnly(items) ==
    SeqSum([i \in 1..Len(items) |-> items[i].price])

\* total_amount = sum(item['quantity'] * item['price'] for item in items)
total_amount(items) ==
    SeqSum([i \in 1..Len(items) |-> items[i].quantity * items[i].price])

\* INSERT INTO sales: NOT NULL columns and UNIQUE(transaction_id) are enforced;
\* id is AUTOINCREMENT and no handler deletes a sale, so the next id is count + 1
InsertSale(db, transaction_id, user_id, total, payment_method) ==
    IF payment_method = NULL
       \/ \E i \in 1..Len(db.sales) : db.sales[i].transaction_id = transaction_id
    THEN [ok |-> FALSE, db |-> db]
    ELSE [ok |-> TRUE,
          db |-> [db EXCEPT !.sales = Append(@,
                    [id |-> Len(db.sales) + 1,
                     transaction_id |-> transaction_id,
                     user_id |-> user_id,
                     total_amount |-> total,
                     payment_method |-> payment_method,
                     status |-> "completed"])]]

\* INSERT INTO sale_items: item['id'] raises KeyError when the cart line has no
\* 'id'; product_id is NOT NULL but no foreign key is enforced
InsertSaleItem(db, sale_id, item) ==
    IF ~item.has_id
    THEN [ok |-> FALSE, db |-> db]
    ELSE [ok |-> TRUE,
          db |-> [db EXCEPT !.sale_items = Append(@,
                    [id |-> Len(db.sale_items) + 1,
                     sale_id |-> sale_id,
                     product_id |-> item.id,
                     quantity |-> item.quantity,
                     unit_price |-> item.price,
                     total_price |-> item.quantity * item.price])]]

\* Mutant of UpdateStock: the update refuses to take stock below zero
UpdateStock_Checked(db, item) ==
    IF item.id \in DOMAIN db.products
       /\ db.products[item.id].stock_quantity < item.quantity
    THEN [ok |-> FALSE, db |-> db]
    ELSE [ok |-> TRUE,
          db |-> [db EXCEPT !.products =
                    [p \in DOMAIN db.products |->
                       IF p = item.id
                       THEN [db.products[p] EXCEPT
                               !.stock_quantity = @ - item.quantity]
                       ELSE db.products[p]]]]

\* UPDATE products SET stock_quantity = stock_quantity - ? WHERE id = ?
UpdateStock(db, item) ==
    [ok |-> TRUE,
     db |-> [db EXCEPT !.products =
               [p \in DOMAIN db.products |->
                  IF p = item.id
                  THEN [db.products[p] EXCEPT
                          !.stock_quantity = @ - item.quantity]
                  ELSE db.products[p]]]]

\* Statement numbers of a checkout of n lines: 1 is the sale header, 2k and
\* 2k+1 the line-item insert and the stock update of line k, 2n+2 the commit.
\* `fault` is the statement at which the database itself raises (disk full,
\* I/O error): 0 when it raises nowhere.
StmtFails(fault, stmt) == fault = stmt

\* for item in items: insert the line, update the stock (lines k..n)
RECURSIVE CheckoutLines(_, _, _, _, _)
CheckoutLines(db, sale_id, items, k, fault) ==
    IF k > Len(items)
    THEN [ok |-> TRUE, db |-> db, stage |-> "none"]
    ELSE LET ins == IF StmtFails(fault, 2 * k)
                    THEN [ok |-> FALSE, db |-> db]
                    ELSE InsertSaleItem(db, sale_id, items[k])
         IN  IF ~ins.ok
             THEN [ok |-> FALSE, db |-> ins.db, stage |-> "line_item"]
             ELSE LET upd == IF StmtFails(fault, 2 * k + 1)
                             THEN [ok |-> FALSE, db |-> ins.db]
                             ELSE UpdateStock(ins.db, items[k])
                  IN  IF ~upd.ok
                      THEN [ok |-> FALSE, db |-> upd.db, stage |-> "stock_update"]
                      ELSE CheckoutLines(upd.db, sale_id, items, k + 1, fault)

\* The body of checkout's try block up to and including conn.commit(): the
\* working copy it leaves and whether every statement went through
CheckoutTry(db, user_id, items, payment_method, t, fault) ==
    LET hdr == IF StmtFails(fault, 1)
               THEN [ok |-> FALSE, db |-> db]
               ELSE InsertSale(db, generate_transaction_id(t), user_id,
                               total_amount(items), payment_method)
    IN  IF ~hdr.ok
        THEN [ok |-> FALSE, db |-> hdr.db, stage |-> "sale_header"]
        ELSE LET body == CheckoutLines(hdr.db, Len(hdr.db.sales), items, 1, fault)
             IN  IF ~body.ok THEN body
                 ELSE IF StmtFails(fault, 2 * Len(items) + 2)
                      THEN [ok |-> FALSE, db |-> body.db, stage |-> "commit"]
                      ELSE body

\* Mutant of Rollback: the except branch keeps what the transaction wrote
Rollback_KeepsWork(committed, working) == working

\* except Exception: conn.rollback() -- the tables as they were committed
Rollback(committed, working) == committed

\* What checkout leaves in the database
CheckoutOutcome(db, user_id, items, payment_method, t, fault) ==
    LET try == CheckoutTry(db, user_id, items, payment_method, t, fault)
    IN  IF try.ok
        THEN try
        ELSE [ok |-> FALSE, db |-> Rollback(db, try.db), stage |-> try.stage]

-----------------------------------------------------------------------------
(* Requests and their outcomes *)

\* No further tables, no connection left open, no request in flight, no files
NoOtherState ==
    /\ tables = EmptyDict
    /\ conns = <<>>
    /\ requests = <<>>
    /\ fs = EmptyDict

\* Every table and the session as a request finds them
Snapshot ==
    [users |-> users, session |-> session,
     products |-> products, sales |-> sales, sale_items |-> sale_items,
     projects |-> projects, checkpoints |-> checkpoints,
     tables |-> tables, fs |-> fs]

NoResp ==
    [handler |-> "none", outcome |-> "none", success |-> FALSE,
     flashed |-> <<>>, stage |-> "none", fault |-> 0, retry |-> FALSE,
     listing |-> <<>>,
     cart |-> <<>>, payment_method |-> "", form |-> <<>>, error |-> "",
     pre |-> <<>>]

\* flash(message, category): the message the request queues for the next page
\* (Flask keeps the queue in the cookie, apart from the keys handlers set)
flash(message, category) == <<category, message>>

Tick ==
    /\ now < MaxTime
    /\ now' = now + 1
    /\ UNCHANGED <<app, authVars, resp, storeVars, trackerVars, restVars>>

-----------------------------------------------------------------------------
(* 04-school-store: data the requests are drawn from *)

\* The default admin account init_database inserts
StoreAdmin ==
    [id |-> 1, username |-> <<"admin">>, email |-> "admin@schoolstore.com",
     password |-> <<"admin123">>, role |-> "admin"]

\* Inventories built earlier through add_product: one holds products 1 and 2,
\* the other only product 1, so that a cart line for product 2 names no row
StoreInventories ==
    { [p \in {1, 2} |-> [price |-> IF p = 1 THEN 5 ELSE 10,
                         stock_quantity |-> IF p = 1 THEN 3 ELSE 2]],
      [p \in {1} |-> [price |-> 5, stock_quantity |-> 3]] }

\* Cart lines a client sends: the price is the client's, not the products row's
CartLines ==
    { [has_id |-> TRUE,  id |-> 1, quantity |-> 2, price |-> 5],
      [has_id |-> TRUE,  id |-> 2, quantity |-> 3, price |-> 10],
      [has_id |-> FALSE, id |-> 0, quantity |-> 2, price |-> 5] }

Carts == UNION { [1..n -> CartLines] : n \in 0..MaxCart }

PaymentMethods == {"cash"}

StoreLogins ==
    { [username |-> <<"admin">>, password |-> <<"admin123">>],
      [username |-> <<"admin">>, password |-> <<"pw">>],
      [username |-> <<>>,        password |-> <<"admin123">>] }

-----------------------------------------------------------------------------
(* Users and sessions: what the apps' register and login routes share *)

\* Mutant of SelectUser: the password is left out of the WHERE clause
SelectUser_AnyPassword(rows, username, password) ==
    LET hits == { i \in 1..Len(rows) : rows[i].username = username }
    IN  IF hits = {} THEN <<>>
        ELSE << rows[CHOOSE i \in hits : \A j \in hits : i <= j] >>

\* SELECT * FROM users WHERE username = ? AND password = ? ... fetchone():
\* <<>> for None, else the first matching row
SelectUser(rows, username, password) ==
    LET hits == { i \in 1..Len(rows) :
                    rows[i].username = username /\ rows[i].password = password }
    IN  IF hits = {} THEN <<>>
        ELSE << rows[CHOOSE i \in hits : \A j \in hits : i <= j] >>

\* Mutant of LoginSession: the username is not stored
LoginSession_NoUsername(s, user, role_key) ==
    DictSet(DictSet(s, "user_id", user.id), role_key, user[role_key])

\* session['user_id'] = user['id']; session['username'] = user['username'];
\* session[role_key] = user[role_key]
LoginSession(s, user, role_key) ==
    DictSet(DictSet(DictSet(s, "user_id", user.id),
                    "username", user.username),
            role_key, user[role_key])

-----
(* 04-school-store: route handlers *)

\* POST /pos/checkout
checkout(items, payment_method, fault) ==
    /\ app = "store"
    /\ IF ~HasUserId(session)
       THEN /\ resp' = [NoResp EXCEPT !.handler = "checkout",
                                      !.outcome = "redirect_login",
                                      !.pre = Snapshot]
            /\ UNCHANGED storeVars
       ELSE IF items = <<>>
       THEN /\ resp' = [NoResp EXCEPT !.handler = "checkout",
                                      !.outcome = "json",
                                      !.stage = "no_items",
                                      !.pre = Snapshot]
            /\ UNCHANGED storeVars
       ELSE LET out == CheckoutOutcome(StoreDb, session["user_id"], items,
                                       payment_method, now, fault)
            IN  /\ products' = out.db.products
                /\ sales' = out.db.sales
                /\ sale_items' = out.db.sale_items
                /\ resp' = [NoResp EXCEPT
                              !.handler = "checkout",
                              !.outcome = "json",
                              !.success = out.ok,
                              !.stage = out.stage,
                              !.fault = fault,
                              !.retry = /\ resp.handler = "checkout"
                                        /\ resp.success
                                        /\ resp.cart = items
                                        /\ resp.payment_method = payment_method,
                              !.cart = IF out.ok THEN items ELSE <<>>,
                              !.payment_method = payment_method,
                              !.pre = Snapshot]
    /\ UNCHANGED <<app, clockVars, authVars, trackerVars, restVars>>

\* POST /login
login_store(username, password) ==
    /\ app = "store"
    /\ IF username = <<>> \/ password = <<>>
       THEN /\ resp' = [NoResp EXCEPT
                          !.handler = "login",
                          !.outcome = "redirect_login",
                          !.flashed = flash("Username and password are required", "error"),
                          !.form = [username |-> username, password |-> password],
                          !.pre = Snapshot]
            /\ UNCHANGED session
       ELSE LET found == SelectUser(users, username, password)
            IN  IF found # <<>>
                THEN /\ session' = LoginSession(session, found[1], "role")
                     /\ resp' = [NoResp EXCEPT
                                   !.handler = "login",
                                   !.outcome = "redirect_index",
                                   !.success = TRUE,
                                   !.flashed = flash("Login successful!", "success"),
                                   !.form = [username |-> username, password |-> password],
                                   !.pre = Snapshot]
                ELSE /\ resp' = [NoResp EXCEPT
                                   !.handler = "login",
                                   !.outcome = "redirect_login",
                                   !.flashed = flash("Invalid username or password", "error"),
                                   !.form = [username |-> username, password |-> password],
                                   !.pre = Snapshot]
                     /\ UNCHANGED session
    /\ UNCHANGED <<app, clockVars, users, storeVars, trackerVars, restVars>>

-----------------------------------------------------------------------------
(* Dates: a date object is a day ordinal (0 is 2025-01-01); a date string    *)
(* 'YYYY-MM-DD' is the triple <<year, month, day>>, whose order as text is   *)
(* the lexicographic order of the triple.                                    *)

IsLeap(y) == (y % 4 = 0 /\ y % 100 # 0) \/ y % 400 = 0

DaysInMonth(y, m) ==
    IF m = 2 THEN (IF IsLeap(y) THEN 29 ELSE 28)
    ELSE IF m \in {4, 6, 9, 11} THEN 30 ELSE 31

\* date.strftime('%Y-%m-%d') of the date n days after the first of month y-m
RECURSIVE DateAfter(_, _, _)
DateAfter(y, m, n) ==
    IF n < DaysInMonth(y, m)
    THEN <<y, m, n + 1>>
    ELSE IF m = 12
         THEN DateAfter(y + 1, 1, n - DaysInMonth(y, m))
         ELSE DateAfter(y, m + 1, n - DaysInMonth(y, m))

strftime_date(ordinal) == DateAfter(2025, 1, ordinal)

\* Days from 2025-01-01 to the first day of month y-m
RECURSIVE DaysBeforeMonth(_, _)
DaysBeforeMonth(y, m) ==
    IF y = 2025 /\ m = 1 THEN 0
    ELSE IF m = 1
         THEN DaysBeforeMonth(y - 1, 12) + DaysInMonth(y - 1, 12)
         ELSE DaysBeforeMonth(y, m - 1) + DaysInMonth(y, m - 1)

\* datetime.strptime(s, '%Y-%m-%d') raises ValueError unless s names a day
ValidDateString(s) ==
    /\ s[1] >= 2025
    /\ s[2] \in 1..12
    /\ s[3] \in 1..DaysInMonth(s[1], s[2])

\* datetime.strptime(s, '%Y-%m-%d').date()
strptime_date(s) == DaysBeforeMonth(s[1], s[2]) + s[3] - 1

\* Text order of two date strings
DateStringLess(a, b) ==
    \/ a[1] < b[1]
    \/ a[1] = b[1] /\ a[2] < b[2]
    \/ a[1] = b[1] /\ a[2] = b[2] /\ a[3] < b[3]

-----------------------------------------------------------------------------
(* 06-student-project-tracker *)

MaxDuration == 16    \* longest project, in days from today to the due date
MaxProjects == 1     \* projects that get checkpoints in one behaviour

\* Mutant of checkpoint_plan: the length buckets use < where the code has <=
checkpoint_plan_StrictBuckets(project_start, project_end, total_points) ==
    LET days_duration == project_end - project_start
    IN  IF days_duration < 7
        THEN [dates  |-> << project_start + (days_duration \div 2),
                            project_end >>,
              points |-> << total_points \div 2, total_points \div 2 >>,
              titles |-> << "Midpoint Review", "Final Submission" >>]
        ELSE IF days_duration < 14
        THEN [dates  |-> << project_start + (days_duration \div 3),
                            project_start + ((2 * days_duration) \div 3),
                            project_end >>,
              points |-> << total_points \div 3, total_points \div 3,
                            total_points \div 3 >>,
              titles |-> << "Initial Progress", "Midpoint Review",
                            "Final Submission" >>]
        ELSE [dates  |-> << project_start + (days_duration \div 4),
                            project_start + (days_duration \div 2),
                            project_start + ((3 * days_duration) \div 4),
                            project_end >>,
              points |-> << total_points \div 4, total_points \div 4,
                            total_points \div 4, total_points \div 4 >>,
              titles |-> << "Initial Progress", "Quarter Review",
                            "Midpoint Review", "Final Submission" >>]

\* Mutant of checkpoint_plan: interior dates are rounded up, not down
checkpoint_plan_RoundUp(project_start, project_end, total_points) ==
    LET days_duration == project_end - project_start
    IN  IF days_duration <= 7
        THEN [dates  |-> << project_start + ((days_duration + 1) \div 2),
                            project_end >>,
              points |-> << total_points \div 2, total_points \div 2 >>,
              titles |-> << "Midpoint Review", "Final Submission" >>]
        ELSE IF days_duration <= 14
        THEN [dates  |-> << project_start + ((days_duration + 2) \div 3),
                            project_start + ((2 * days_duration + 2) \div 3),
                            project_end >>,
              points |-> << total_points \div 3, total_points \div 3,
                            total_points \div 3 >>,
              titles |-> << "Initial Progress", "Midpoint Review",
                            "Final Submission" >>]
        ELSE [dates  |-> << project_start + ((days_duration + 3) \div 4),
                            project_start + ((days_duration + 1) \div 2),
                            project_start + ((3 * days_duration + 3) \div 4),
                            project_end >>,
              points |-> << total_points \div 4, total_points \div 4,
                            total_points \div 4, total_points \div 4 >>,
              titles |-> << "Initial Progress", "Quarter Review",
                            "Midpoint Review", "Final Submission" >>]

\* Mutant of checkpoint_plan: the last checkpoint takes the division remainder
checkpoint_plan_Remainder(project_start, project_end, total_points) ==
    LET days_duration == project_end - project_start
    IN  IF days_duration <= 7
        THEN [dates  |-> << project_start + (days_duration \div 2),
                            project_end >>,
              points |-> << total_points \div 2,
                            total_points - (total_points \div 2) >>,
              titles |-> << "Midpoint Review", "Final Submission" >>]
        ELSE IF days_duration <= 14
        THEN [dates  |-> << project_start + (days_duration \div 3),
                            project_start + ((2 * days_duration) \div 3),
                            project_end >>,
              points |-> << total_points \div 3, total_points \div 3,
                            total_points - 2 * (total_points \div 3) >>,
              titles |-> << "Initial Progress", "Midpoint Review",
                            "Final Submission" >>]
        ELSE [dates  |-> << project_start + (days_duration \div 4),
                            project_start + (days_duration \div 2),
                            project_start + ((3 * days_duration) \div 4),
                            project_end >>,
              points |-> << total_points \div 4, total_points \div 4,
                            total_points \div 4,
                            total_points - 3 * (total_points \div 4) >>,
              titles |-> << "Initial Progress", "Quarter Review",
                            "Midpoint Review", "Final Submission" >>]

\* The three lists create_checkpoints builds, by the project's length in days
checkpoint_plan(project_start, project_end, total_points) ==
    LET days_duration == project_end - project_start
    IN  IF days_duration <= 7
        THEN [dates  |-> << project_start + (days_duration \div 2),
                            project_end >>,
              points |-> << total_points \div 2, total_points \div 2 >>,
              titles |-> << "Midpoint Review", "Final Submission" >>]
        ELSE IF days_duration <= 14
        THEN [dates  |-> << project_start + (days_duration \div 3),
                            project_start + ((2 * days_duration) \div 3),
                            project_end >>,
              points |-> << total_points \div 3, total_points \div 3,
                            total_points \div 3 >>,
              titles |-> << "Initial Progress", "Midpoint Review",
                            "Final Submission" >>]
        ELSE [dates  |-> << project_start + (days_duration \div 4),
                            project_start + (days_duration \div 2),
                            project_start + ((3 * days_duration) \div 4),
                            project_end >>,
              points |-> << total_points \div 4, total_points \div 4,
                            total_points \div 4, total_points \div 4 >>,
              titles |-> << "Initial Progress", "Quarter Review",
                            "Midpoint Review", "Final Submission" >>]

Min(a, b) == IF a <= b THEN a ELSE b

\* The rows the loop over enumerate(zip(dates, points, titles)) inserts
CheckpointRows(project_id, start, due_date, total_points, first_id) ==
    LET plan == checkpoint_plan(start, strptime_date(due_date), total_points)
        n    == Min(Len(plan.dates), Min(Len(plan.points), Len(plan.titles)))
    IN  [i \in 1..n |->
           [id |-> first_id + i - 1,
            project_id |-> project_id,
            title |-> plan.titles[i],
            due_date |-> strftime_date(plan.dates[i]),
            points |-> plan.points[i],
            order_num |-> i]]

\* Days on which the server handles requests
Todays == { strptime_date(<<2025, 12, 25>>), strptime_date(<<2026, 2, 20>>) }

\* due_date arguments: days around and after today, and one that is no date
DueDates(start) ==
    { strftime_date(start + d) : d \in (0 - 1)..MaxDuration } \cup { <<2026, 2, 30>> }

PointTotals == {7, 100}

\* create_checkpoints on its own connection.  `write_locked` says whether
\* another connection holds the database's write lock (an open transaction
\* that has written): the INSERT then waits out the busy timeout and raises
\* OperationalError.  The date is parsed before anything is written.
CreateCheckpointsCall(rows, write_locked, project_id, start, due_date, total_points) ==
    IF ~ValidDateString(due_date)
    THEN [raised |-> "ValueError", checkpoints |-> rows]
    ELSE IF write_locked
    THEN [raised |-> "OperationalError", checkpoints |-> rows]
    ELSE [raised |-> "none",
          checkpoints |-> rows \o CheckpointRows(project_id, start, due_date,
                                                 total_points, Len(rows) + 1)]

\* Project ids that already have checkpoints
ProjectsWithCheckpoints == { checkpoints[i].project_id : i \in 1..Len(checkpoints) }

\* create_checkpoints(project_id, due_date, total_points) called on its own,
\* for the next project that has no checkpoints yet
create_checkpoints(due_date, total_points) ==
    /\ app = "tracker"
    /\ Cardinality(ProjectsWithCheckpoints) < MaxProjects
    /\ LET project_id == Cardinality(ProjectsWithCheckpoints) + 1
           call == CreateCheckpointsCall(checkpoints, FALSE, project_id, today,
                                         due_date, total_points)
       IN  /\ checkpoints' = call.checkpoints
           /\ resp' = [NoResp EXCEPT !.handler = "create_checkpoints",
                                     !.outcome = call.raised,
                                     !.success = (call.raised = "none"),
                                     !.form = <<project_id, due_date, total_points>>,
                                     !.pre = Snapshot]
    /\ UNCHANGED <<app, clockVars, authVars, storeVars, today, projects, restVars>>

\* POST /projects/create/ : the project INSERT is still uncommitted on the
\* handler's connection when create_checkpoints opens its own
create_project(title, class_id, due_date, total_points) ==
    /\ app = "tracker"
    /\ IF title = "" \/ class_id = "" \/ due_date = <<>>
       THEN /\ resp' = [NoResp EXCEPT !.handler = "create_project",
                                      !.outcome = "render_form_error",
                                      !.form = <<title, due_date, total_points>>,
                                      !.pre = Snapshot]
            /\ UNCHANGED <<projects, checkpoints>>
       ELSE LET pending == Append(projects,
                              [id |-> Len(projects) + 1, title |-> title,
                               class_id |-> class_id, due_date |-> due_date,
                               total_points |-> total_points])
                call == CreateCheckpointsCall(checkpoints, TRUE, Len(pending),
                                              today, due_date, total_points)
            IN  IF call.raised = "none"
                THEN /\ projects' = pending
                     /\ checkpoints' = call.checkpoints
                     /\ resp' = [NoResp EXCEPT !.handler = "create_project",
                                               !.outcome = "redirect_projects",
                                               !.success = TRUE,
                                               !.form = <<title, due_date, total_points>>,
                                               !.pre = Snapshot]
                ELSE \* the exception leaves the handler: no commit, and the
                     \* connection's pending INSERT is dropped with it
                     /\ UNCHANGED <<projects, checkpoints>>
                     /\ resp' = [NoResp EXCEPT !.handler = "create_project",
                                               !.outcome = call.raised,
                                               !.form = <<title, due_date, total_points>>,
                                               !.pre = Snapshot]
    /\ UNCHANGED <<app, clockVars, authVars, storeVars, today, restVars>>

ProjectTitles == {"", "Essay"}

-----------------------------------------------------------------------------
(* register, login and logout in 01-basic-crud-app ("crud"; src/app.py is the  *)
(* same code), 02-helpdesk-system, 03-blog-system and the starter template     *)

\* Mutant of InsertUser: the table has no UNIQUE constraint
InsertUser_NoUnique(rows, row, unique_columns) ==
    [ok |-> TRUE,
     rows |-> Append(rows, [c \in DOMAIN row \cup {"id"} |->
                              IF c = "id" THEN Len(rows) + 1 ELSE row[c]])]

\* INSERT INTO users: sqlite3.IntegrityError when a UNIQUE column's value is
\* already in the table; id is AUTOINCREMENT and no handler deletes a user
InsertUser(rows, row, unique_columns) ==
    IF \E i \in 1..Len(rows) : \E c \in unique_columns : rows[i][c] = row[c]
    THEN [ok |-> FALSE, rows |-> rows]
    ELSE [ok |-> TRUE,
          rows |-> Append(rows, [c \in DOMAIN row \cup {"id"} |->
                                   IF c = "id" THEN Len(rows) + 1 ELSE row[c]])]

\* werkzeug's generate_password_hash / check_password_hash: the hash stands for
\* the password it was made from
generate_password_hash(password) == <<"hash-of">> \o password

check_password_hash(pw_hash, password) == pw_hash = generate_password_hash(password)

\* Rows the schema initializers insert
SeedUsers(a) ==
    CASE a = "helpdesk" ->
           << [id |-> 1, username |-> <<"admin">>, email |-> "admin@helpdesk.com",
               password |-> <<"admin123">>, role |-> "admin"] >>
      [] a = "blog" ->
           << [id |-> 1, username |-> <<"admin">>, email |-> "admin@blog.com",
               password |-> <<"admin123">>,
               bio |-> "Blog administrator and tech enthusiast", is_admin |-> 1] >>
      [] a = "store" -> << StoreAdmin >>
      [] OTHER -> <<>>

\* Form values: the apps that trim their fields are sent padded and blank ones
TrimUsernames == { <<>>, <<" ">>, <<"ann">>, <<" ", "ann", " ">>, <<"bob">> }
TrimPasswords == { <<>>, <<"pw">>, <<"pw", " ">>, <<"x">> }
Statuses      == { "guest", "admin", "owner" }
RawUsernames  == { <<"admin">>, <<"ann">>, <<" ", "ann">> }
RawPasswords  == { <<"admin123">>, <<"pw">> }
Emails        == { "ann@example.com", "bob@example.com" }

AuthResp(handler, outcome, success, flashed, error, form) ==
    [NoResp EXCEPT !.handler = handler, !.outcome = outcome,
                   !.success = success, !.flashed = flashed, !.error = error,
                   !.form = form, !.pre = Snapshot]

\* 01-basic-crud-app: POST /register
register_crud(username_field, password_field, status) ==
    /\ app = "crud"
    /\ LET username == strip(username_field)
           password == strip(password_field)
           form     == [username |-> username_field, email |-> ""]
       IN  IF username = <<>> \/ password = <<>> \/ status \notin {"guest", "admin"}
           THEN /\ UNCHANGED users
                /\ resp' = AuthResp("register", "render_register", FALSE, <<>>,
                     "All fields are required and status must be guest or admin.",
                     form)
           ELSE LET ins == InsertUser(users,
                             [username |-> username, password |-> password,
                              status |-> status],
                             {"username"})
                IN  /\ users' = ins.rows
                    /\ resp' = IF ins.ok
                               THEN AuthResp("register", "render_register", TRUE,
                                             <<>>, "", form)
                               ELSE AuthResp("register", "render_register", FALSE,
                                             <<>>, "Username already exists.", form)
    /\ UNCHANGED <<app, clockVars, session, storeVars, trackerVars, restVars>>

\* 01-basic-crud-app: POST /login
login_crud(username_field, password_field) ==
    /\ app = "crud"
    /\ LET found == SelectUser(users, strip(username_field), strip(password_field))
           form  == [username |-> username_field, password |-> password_field]
       IN  IF found # <<>>
           THEN /\ session' = LoginSession(session, found[1], "status")
                /\ resp' = AuthResp("login", "redirect_index", TRUE, <<>>, "", form)
           ELSE /\ UNCHANGED session
                /\ resp' = AuthResp("login", "render_login", FALSE, <<>>,
                                    "Invalid username or password.", form)
    /\ UNCHANGED <<app, clockVars, users, storeVars, trackerVars, restVars>>

\* 02-helpdesk-system: POST /register
register_helpdesk(username, email, password) ==
    /\ app = "helpdesk"
    /\ LET ins  == InsertUser(users,
                     [username |-> username, email |-> email,
                      password |-> password, role |-> "customer"],
                     {"username", "email"})
           form == [username |-> username, email |-> email]
       IN  /\ users' = ins.rows
           /\ resp' = IF ins.ok
                      THEN AuthResp("register", "redirect_login", TRUE,
                             flash("Registration successful! Please login.", "success"),
                             "", form)
                      ELSE AuthResp("register", "render_register", FALSE,
                             flash("Username or email already exists", "error"),
                             "", form)
    /\ UNCHANGED <<app, clockVars, session, storeVars, trackerVars, restVars>>

\* 02-helpdesk-system: POST /login
login_helpdesk(username, password) ==
    /\ app = "helpdesk"
    /\ LET found == SelectUser(users, username, password)
           form  == [username |-> username, password |-> password]
       IN  IF found # <<>>
           THEN /\ session' = LoginSession(session, found[1], "role")
                /\ resp' = AuthResp("login", "redirect_index", TRUE,
                                    flash("Login successful!", "success"), "", form)
           ELSE /\ UNCHANGED session
                /\ resp' = AuthResp("login", "render_login", FALSE,
                                    flash("Invalid username or password", "error"),
                                    "", form)
    /\ UNCHANGED <<app, clockVars, users, storeVars, trackerVars, restVars>>

\* 03-blog-system: POST /register
register_blog(username, email, password) ==
    /\ app = "blog"
    /\ LET ins  == InsertUser(users,
                     [username |-> username, email |-> email,
                      password |-> password, bio |-> "", is_admin |-> 0],
                     {"username", "email"})
           form == [username |-> username, email |-> email]
       IN  /\ users' = ins.rows
           /\ resp' = IF ins.ok
                      THEN AuthResp("register", "redirect_login", TRUE,
                             flash("Registration successful! Please login to start blogging.",
                                   "success"),
                             "", form)
                      ELSE AuthResp("register", "render_register", FALSE,
                             flash("Username or email already exists", "error"),
                             "", form)
    /\ UNCHANGED <<app, clockVars, session, storeVars, trackerVars, restVars>>

\* 03-blog-system: POST /login
login_blog(username, password) ==
    /\ app = "blog"
    /\ LET found == SelectUser(users, username, password)
           form  == [username |-> username, password |-> password]
       IN  IF found # <<>>
           THEN /\ session' = LoginSession(session, found[1], "is_admin")
                /\ resp' = AuthResp("login", "redirect_index", TRUE,
                                    flash("Login successful! Welcome back!", "success"),
                                    "", form)
           ELSE /\ UNCHANGED session
                /\ resp' = AuthResp("login", "render_login", FALSE,
                                    flash("Invalid username or password", "error"),
                                    "", form)
    /\ UNCHANGED <<app, clockVars, users, storeVars, trackerVars, restVars>>

\* starter template: POST /register
register_template(username_field, password_field) ==
    /\ app = "template"
    /\ LET username == strip(username_field)
           password == strip(password_field)
           form     == [username |-> username_field, email |-> ""]
       IN  IF username = <<>> \/ password = <<>>
           THEN /\ UNCHANGED users
                /\ resp' = AuthResp("register", "render_register", FALSE,
                             flash("Username and password are required.", "error"),
                             "", form)
           ELSE IF \E i \in 1..Len(users) : users[i].username = username
           THEN /\ UNCHANGED users
                /\ resp' = AuthResp("register", "render_register", FALSE,
                             flash("That username is taken. Please choose another.",
                                   "error"),
                             "", form)
           ELSE /\ users' = Append(users,
                              [id |-> Len(users) + 1, username |-> username,
                               password_hash |-> generate_password_hash(password)])
                /\ resp' = AuthResp("register", "redirect_login", TRUE,
                             flash("Registration successful! You can now log in.",
                                   "success"),
                             "", form)
    /\ UNCHANGED <<app, clockVars, session, storeVars, trackerVars, restVars>>

\* starter template: POST /login
login_template(username_field, password_field) ==
    /\ app = "template"
    /\ LET username == strip(username_field)
           password == strip(password_field)
           hits     == { i \in 1..Len(users) : users[i].username = username }
           form     == [username |-> username_field, password |-> password_field]
       IN  IF \/ hits = {}
              \/ ~check_password_hash(
                    users[CHOOSE i \in hits : \A j \in hits : i <= j].password_hash,
                    password)
           THEN /\ UNCHANGED session
                /\ resp' = AuthResp("login", "render_login", FALSE,
                                    flash("Invalid username or password.", "error"),
                                    "", form)
           ELSE /\ session' = DictSet(session, "user_id",
                                users[CHOOSE i \in hits : \A j \in hits : i <= j].id)
                /\ resp' = AuthResp("login", "redirect_index", TRUE,
                                    flash(<<"Welcome, ", username, "!">>, "success"), "", form)
    /\ UNCHANGED <<app, clockVars, users, storeVars, trackerVars, restVars>>

AuthApps == {"crud", "helpdesk", "blog", "store", "template"}

\* GET /logout, in every app that has sessions: session.clear()
logout ==
    /\ app \in AuthApps
    /\ session' = EmptyDict
    /\ resp' = AuthResp("logout",
                        CASE app = "crud" -> "render_logout"
                          [] app \in {"helpdesk", "store"} -> "redirect_login"
                          [] OTHER -> "redirect_index",
                        TRUE,
                        CASE app = "crud" -> <<>>
                          [] app = "blog" ->
                               flash("You have been logged out. Come back soon!", "info")
                          [] app = "template" ->
                               flash("Logged out. See you next time!", "info")
                          [] OTHER -> flash("You have been logged out", "info"),
                        "", <<>>)
    /\ UNCHANGED <<app, clockVars, users, storeVars, trackerVars, restVars>>

-----------------------------------------------------------------------------
(* Privileged handlers: the admin pages of the basic CRUD app, the help desk,  *)
(* the blog and the school store                                               *)

\* session.get(key) == value, for a string value
SessionIs(s, key, value) == key \in DOMAIN s /\ s[key] = value

PageResp(handler, outcome, flashed, error, form) ==
    AuthResp(handler, outcome,
             /\ error = ""
             /\ outcome # "redirect_login"
             /\ ~(flashed # <<>> /\ flashed[1] = "error"),
             flashed, error, form)

\* 01-basic-crud-app: GET /admin
admin_dashboard_crud ==
    /\ app = "crud"
    /\ resp' = IF ~HasUserId(session) \/ ~SessionIs(session, "status", "admin")
               THEN PageResp("admin_dashboard", "redirect_login", <<>>, "", <<>>)
               ELSE PageResp("admin_dashboard", "render_admin_dashboard", <<>>, "", <<>>)
    /\ UNCHANGED <<app, clockVars, authVars, storeVars, trackerVars, restVars>>

\* UPDATE users SET status = ?[, password = ?] WHERE id = ?
UpdateUser(rows, user_id, status, password) ==
    [i \in 1..Len(rows) |->
       IF rows[i].id # user_id THEN rows[i]
       ELSE IF password # <<>>
            THEN [rows[i] EXCEPT !.status = status, !.password = password]
            ELSE [rows[i] EXCEPT !.status = status]]

\* 01-basic-crud-app: GET or POST /admin/user/<user_id>/edit/
edit_user(user_id, method, status, password_field) ==
    /\ app = "crud"
    /\ LET password == strip(password_field)
           form     == <<user_id, method, status, password_field>>
       IN  IF ~HasUserId(session) \/ ~SessionIs(session, "status", "admin")
           THEN /\ UNCHANGED users
                /\ resp' = PageResp("edit_user", "redirect_login", <<>>, "", form)
           ELSE IF \A i \in 1..Len(users) : users[i].id # user_id
           THEN /\ UNCHANGED users
                /\ resp' = PageResp("edit_user", "redirect_admin_dashboard",
                                    <<>>, "", form)
           ELSE IF method = "POST" /\ status \notin {"guest", "admin"}
           THEN /\ UNCHANGED users
                /\ resp' = PageResp("edit_user", "render_edit_user", <<>>,
                                    "Invalid status.", form)
           ELSE /\ users' = IF method = "POST"
                            THEN UpdateUser(users, user_id, status, password)
                            ELSE users
                /\ resp' = PageResp("edit_user", "render_edit_user", <<>>, "", form)
    /\ UNCHANGED <<app, clockVars, session, storeVars, trackerVars, restVars>>

\* 02-helpdesk-system: GET /admin; the role is read from the session's user row
admin_dashboard_helpdesk ==
    /\ app = "helpdesk"
    /\ resp' =
         IF ~HasUserId(session)
         THEN PageResp("admin_dashboard", "redirect_login", <<>>, "", <<>>)
         ELSE LET hits == { i \in 1..Len(users) : users[i].id = session["user_id"] }
              IN  IF hits = {}
                  THEN PageResp("admin_dashboard", "error_500", <<>>,
                                "TypeError", <<>>)
                  ELSE IF users[CHOOSE i \in hits : TRUE].role # "admin"
                  THEN PageResp("admin_dashboard", "redirect_index",
                                flash("Access denied", "error"), "", <<>>)
                  ELSE PageResp("admin_dashboard", "render_admin_dashboard",
                                <<>>, "", <<>>)
    /\ UNCHANGED <<app, clockVars, authVars, storeVars, trackerVars, restVars>>

\* 03-blog-system: GET /admin
admin_dashboard_blog ==
    /\ app = "blog"
    /\ resp' = IF ~HasUserId(session)
                  \/ ~("is_admin" \in DOMAIN session /\ session["is_admin"] # 0)
               THEN PageResp("admin_dashboard", "redirect_index",
                             flash("Access denied", "error"), "", <<>>)
               ELSE PageResp("admin_dashboard", "render_admin_dashboard", <<>>, "", <<>>)
    /\ UNCHANGED <<app, clockVars, authVars, storeVars, trackerVars, restVars>>

\* 04-school-store: GET /admin
admin_dashboard_store ==
    /\ app = "store"
    /\ resp' = IF ~HasUserId(session) \/ ~SessionIs(session, "role", "admin")
               THEN PageResp("admin_dashboard", "redirect_index",
                             flash("Admin access required", "error"), "", <<>>)
               ELSE PageResp("admin_dashboard", "render_admin_dashboard", <<>>, "", <<>>)
    /\ UNCHANGED <<app, clockVars, authVars, storeVars, trackerVars, restVars>>

-----------------------------------------------------------------------------
(* 07-threaded-discussion: threads, reply posts and the admin routes.  The app *)
(* never reads the session: every write is made as user 1                      *)

\* INSERT OR IGNORE INTO <table>: the row is skipped when a UNIQUE column's
\* value is already there, and appended otherwise
InsertOrIgnore(rows, row, unique_columns) ==
    InsertUser(rows, row, unique_columns).rows

\* INSERT OR IGNORE of each seed row in turn
RECURSIVE InsertAllOrIgnore(_, _, _)
InsertAllOrIgnore(rows, seeds, unique_columns) ==
    IF seeds = <<>> THEN rows
    ELSE InsertAllOrIgnore(InsertOrIgnore(rows, Head(seeds), unique_columns),
                           Tail(seeds), unique_columns)

\* init_db's default categories; categories.name is not declared UNIQUE
DiscussionCategories ==
    << [name |-> "General Discussion",
        description |-> "General topics and conversations"],
       [name |-> "Technology", description |-> "Tech-related discussions"],
       [name |-> "Help & Support",
        description |-> "Questions and support requests"],
       [name |-> "Announcements",
        description |-> "Important announcements and updates"] >>

\* CURRENT_TIMESTAMP: the clock cut to the second
CURRENT_TIMESTAMP == now \div TicksPerSecond

\* init_db's tables, as far as the routes below use them; sqlite_sequence
\* keeps the largest id AUTOINCREMENT has given out in each table
DiscussionTables ==
    [categories |-> InsertAllOrIgnore(<<>>, DiscussionCategories, {}),
     threads |-> <<>>, posts |-> <<>>, likes |-> <<>>,
     sqlite_sequence |-> [threads |-> 0, posts |-> 0, likes |-> 0]]

DiscussionAdmin ==
    [id |-> 1, username |-> <<"admin">>, email |-> "admin@example.com",
     password_hash |-> <<"admin123">>, role |-> "admin"]

\* Mutant of DeleteWhere: the comparison is <= where the statement has =
DeleteWhere_AtMost(rows, column, value) ==
    SelectSeq(rows, LAMBDA r : r[column] > value)

\* DELETE FROM <table> WHERE <column> = ?
DeleteWhere(rows, column, value) ==
    SelectSeq(rows, LAMBDA r : r[column] # value)

\* POST /thread/create
create_thread(title, content, category_id) ==
    /\ app = "discussion"
    /\ IF title = "" \/ content = "" \/ category_id = ""
       THEN /\ UNCHANGED tables
            /\ resp' = PageResp("create_thread", "render_create_thread",
                                flash("All fields are required!", "error"), "",
                                <<title, content, category_id>>)
       ELSE /\ tables.sqlite_sequence.threads < MaxThreads
            /\ LET thread_id == tables.sqlite_sequence.threads + 1
               IN  tables' = [tables EXCEPT
                     !.threads = Append(@,
                        [id |-> thread_id, title |-> title, content |-> content,
                         user_id |-> 1, category_id |-> category_id,
                         is_pinned |-> 0, is_locked |-> 0, view_count |-> 0,
                         created_at |-> CURRENT_TIMESTAMP]),
                     !.sqlite_sequence.threads = thread_id]
            /\ resp' = PageResp("create_thread", "redirect_view_thread",
                                flash("Thread created successfully!", "success"), "",
                                <<title, content, category_id>>)
    /\ UNCHANGED <<app, clockVars, authVars, storeVars, trackerVars,
                   conns, requests, fs>>

\* POST /thread/<thread_id>/reply; foreign keys are not enforced
reply_to_thread(thread_id, content) ==
    /\ app = "discussion"
    /\ IF content = ""
       THEN /\ UNCHANGED tables
            /\ resp' = PageResp("reply_to_thread", "redirect_view_thread",
                                flash("Reply content is required!", "error"), "",
                                <<thread_id, content>>)
       ELSE /\ tables.sqlite_sequence.posts < MaxPosts
            /\ LET post_id == tables.sqlite_sequence.posts + 1
               IN  tables' = [tables EXCEPT
                     !.posts = Append(@,
                        [id |-> post_id, content |-> content, user_id |-> 1,
                         thread_id |-> thread_id,
                         created_at |-> CURRENT_TIMESTAMP]),
                     !.sqlite_sequence.posts = post_id]
            /\ resp' = PageResp("reply_to_thread", "redirect_view_thread",
                                flash("Reply posted successfully!", "success"), "",
                                <<thread_id, content>>)
    /\ UNCHANGED <<app, clockVars, authVars, storeVars, trackerVars,
                   conns, requests, fs>>

\* GET /admin
admin_dashboard_discussion ==
    /\ app = "discussion"
    /\ resp' = PageResp("admin_dashboard", "render_admin_dashboard", <<>>, "", <<>>)
    /\ UNCHANGED <<app, clockVars, authVars, storeVars, trackerVars, restVars>>

\* POST /admin/thread/<thread_id>/toggle_pin
toggle_pin_thread(thread_id) ==
    /\ app = "discussion"
    /\ IF \A i \in 1..Len(tables.threads) : tables.threads[i].id # thread_id
       THEN /\ UNCHANGED tables
            /\ resp' = PageResp("toggle_pin_thread", "error_500", <<>>,
                                "TypeError", <<thread_id>>)
       ELSE /\ tables' = [tables EXCEPT !.threads =
                            [i \in 1..Len(@) |->
                               IF @[i].id = thread_id
                               THEN [@[i] EXCEPT !.is_pinned = 1 - @]
                               ELSE @[i]]]
            /\ resp' = PageResp("toggle_pin_thread", "json", <<>>, "",
                                <<thread_id>>)
    /\ UNCHANGED <<app, clockVars, authVars, storeVars, trackerVars,
                   conns, requests, fs>>

\* POST /admin/thread/<thread_id>/delete
delete_thread(thread_id) ==
    /\ app = "discussion"
    /\ tables' = [tables EXCEPT
                    !.likes   = DeleteWhere(@, "thread_id", thread_id),
                    !.posts   = DeleteWhere(@, "thread_id", thread_id),
                    !.threads = DeleteWhere(@, "id", thread_id)]
    /\ resp' = PageResp("delete_thread", "redirect_admin_threads",
                        flash("Thread deleted successfully!", "success"), "",
                        <<thread_id>>)
    /\ UNCHANGED <<app, clockVars, authVars, storeVars, trackerVars,
                   conns, requests, fs>>

-----------------------------------------------------------------------------
(* 01-basic-crud-app: the items routes (src/app.py is the same code) *)

CrudTables == [items |-> <<>>, sqlite_sequence |-> [items |-> 0]]

\* POST /create/
create(name_field, description_field) ==
    /\ app = "crud"
    /\ LET name        == strip(name_field)
           description == strip(description_field)
           form        == [name |-> name_field, description |-> description_field]
       IN  IF name = <<>> \/ description = <<>>
           THEN /\ UNCHANGED tables
                /\ resp' = PageResp("create", "redirect_create", <<>>, "", form)
           ELSE /\ tables.sqlite_sequence.items < MaxItems
                /\ tables' = [tables EXCEPT
                     !.items = Append(@, [id |-> tables.sqlite_sequence.items + 1,
                                          name |-> name,
                                          description |-> description]),
                     !.sqlite_sequence.items = @ + 1]
                /\ resp' = PageResp("create", "redirect_index", <<>>, "", form)
    /\ UNCHANGED <<app, clockVars, authVars, storeVars, trackerVars,
                   conns, requests, fs>>

\* GET or POST /<item_id>/edit/
edit(item_id, method, name_field, description_field) ==
    /\ app = "crud"
    /\ LET new_name        == strip(name_field)
           new_description == strip(description_field)
           form == [id |-> item_id, method |-> method,
                    name |-> name_field, description |-> description_field]
       IN  IF \A i \in 1..Len(tables.items) : tables.items[i].id # item_id
           THEN /\ UNCHANGED tables
                /\ resp' = PageResp("edit", "redirect_index", <<>>, "", form)
           ELSE IF method = "POST"
           THEN /\ tables' =
                     IF new_name # <<>> /\ new_description # <<>>
                     THEN [tables EXCEPT !.items =
                             [i \in 1..Len(@) |->
                                IF @[i].id = item_id
                                THEN [@[i] EXCEPT !.name = new_name,
                                                  !.description = new_description]
                                ELSE @[i]]]
                     ELSE tables
                /\ resp' = PageResp("edit", "redirect_index", <<>>, "", form)
           ELSE /\ UNCHANGED tables
                /\ resp' = PageResp("edit", "render_edit", <<>>, "", form)
    /\ UNCHANGED <<app, clockVars, authVars, storeVars, trackerVars,
                   conns, requests, fs>>

\* POST /<item_id>/delete/
delete(item_id) ==
    /\ app = "crud"
    /\ tables' = [tables EXCEPT !.items = DeleteWhere(@, "id", item_id)]
    /\ resp' = PageResp("delete", "redirect_index", <<>>, "", [id |-> item_id])
    /\ UNCHANGED <<app, clockVars, authVars, storeVars, trackerVars,
                   conns, requests, fs>>

-----------------------------------------------------------------------------
(* Schema initializers, run again on the database they have set up (the        *)
(* process is restarted).  CREATE TABLE IF NOT EXISTS leaves an existing       *)
(* table alone; the seed inserts are what can change it.                       *)

HelpdeskCategories ==
    << [name |-> "Technical Support",
        description |-> "Hardware and software issues", color |-> "red"],
       [name |-> "Account Issues",
        description |-> "Login, password, and account problems", color |-> "blue"],
       [name |-> "Billing",
        description |-> "Payment and subscription questions", color |-> "green"],
       [name |-> "Feature Request",
        description |-> "Suggestions for new features", color |-> "purple"],
       [name |-> "General",
        description |-> "Other questions and inquiries", color |-> "gray"] >>

StoreCategories ==
    << [name |-> "School Supplies",
        description |-> "Pens, pencils, notebooks, and other school essentials"],
       [name |-> "Electronics",
        description |-> "Calculators, headphones, and electronic devices"],
       [name |-> "Clothing",
        description |-> "School uniforms, t-shirts, and accessories"],
       [name |-> "Food & Drinks",
        description |-> "Snacks, beverages, and cafeteria items"],
       [name |-> "Books",
        description |-> "Textbooks, novels, and reference materials"] >>

\* A users row without its id
WithoutId(row) == [c \in DOMAIN row \ {"id"} |-> row[c]]

\* 02-helpdesk-system: init_database()
init_database_helpdesk ==
    /\ app = "helpdesk"
    /\ tables' = [tables EXCEPT !.categories =
                    InsertAllOrIgnore(@, HelpdeskCategories, {"name"})]
    /\ users' = InsertOrIgnore(users, WithoutId(SeedUsers("helpdesk")[1]),
                               {"username", "email"})
    /\ resp' = PageResp("init_database", "none", <<>>, "", <<>>)
    /\ UNCHANGED <<app, clockVars, session, storeVars, trackerVars,
                   conns, requests, fs>>

\* 04-school-store: init_database(); the admin is inserted when no user has
\* the admin role, with a plain INSERT
init_database_store ==
    /\ app = "store"
    /\ LET admin_exists == \E i \in 1..Len(users) : users[i].role = "admin"
           ins == IF admin_exists THEN [ok |-> TRUE, rows |-> users]
                  ELSE InsertUser(users, WithoutId(StoreAdmin),
                                  {"username", "email"})
       IN  IF ins.ok
           THEN /\ tables' = [tables EXCEPT !.categories =
                                InsertAllOrIgnore(@, StoreCategories, {"name"})]
                /\ users' = ins.rows
                /\ resp' = PageResp("init_database", "none", <<>>, "", <<>>)
           ELSE /\ UNCHANGED <<tables, users>>
                /\ resp' = PageResp("init_database", "none", <<>>,
                                    "IntegrityError", <<>>)
    /\ UNCHANGED <<app, clockVars, session, storeVars, trackerVars,
                   conns, requests, fs>>

\* 07-threaded-discussion: init_db()
init_db_discussion ==
    /\ app = "discussion"
    /\ Len(tables.categories) < Len(DiscussionCategories) * (MaxRuns + 1)
    /\ tables' = [tables EXCEPT !.categories =
                    InsertAllOrIgnore(@, DiscussionCategories, {})]
    /\ users' = InsertOrIgnore(users, WithoutId(DiscussionAdmin),
                               {"username", "email"})
    /\ resp' = PageResp("init_db", "none", <<>>, "", <<>>)
    /\ UNCHANGED <<app, clockVars, session, storeVars, trackerVars,
                   conns, requests, fs>>

-----------------------------------------------------------------------------
(* 02-helpdesk-system: tickets and responses *)

HelpdeskTables ==
    [categories |-> InsertAllOrIgnore(<<>>, HelpdeskCategories, {"name"}),
     tickets |-> <<>>, responses |-> <<>>]

\* SELECT * FROM <table> WHERE id = ? ... fetchone(): <<>> for None
SelectById(rows, id) ==
    LET hits == { i \in 1..Len(rows) : rows[i].id = id }
    IN  IF hits = {} THEN <<>> ELSE << rows[CHOOSE i \in hits : TRUE] >>

\* Mutant of FirstInOrder: the row ORDER BY <column> DESC would put first
FirstInOrder_Descending(rows, column) ==
    CHOOSE i \in 1..Len(rows) :
      \A j \in 1..Len(rows) :
        \/ rows[i][column] > rows[j][column]
        \/ rows[i][column] = rows[j][column] /\ i <= j

\* The row ORDER BY <column> ASC puts first: the least key, and among equal
\* keys the least rowid
FirstInOrder(rows, column) ==
    CHOOSE i \in 1..Len(rows) :
      \A j \in 1..Len(rows) :
        \/ rows[i][column] < rows[j][column]
        \/ rows[i][column] = rows[j][column] /\ i <= j

\* ORDER BY <column> ASC
RECURSIVE OrderBy(_, _)
OrderBy(rows, column) ==
    IF rows = <<>> THEN <<>>
    ELSE LET least == FirstInOrder(rows, column)
         IN  <<rows[least]>> \o
             OrderBy(SubSeq(rows, 1, least - 1) \o
                     SubSeq(rows, least + 1, Len(rows)), column)

\* A form value stored in, or compared with, a column of INTEGER affinity:
\* text that looks like an integer becomes that integer
IntegerAffinity(text) ==
    CASE text = "1" -> 1
      [] text = "2" -> 2
      [] text = "3" -> 3
      [] OTHER -> text

\* Mutant of AssignedAgentField: an agent's assignment is written too
AssignedAgentField_AnyStaff(role, assigned_agent_id) == assigned_agent_id

\* `if assigned_agent_id and user['role'] == 'admin'`: the field as the UPDATE
\* takes it ("" when it is left out)
AssignedAgentField(role, assigned_agent_id) ==
    IF role = "admin" THEN assigned_agent_id ELSE ""

\* Mutant of StatusAfterResponse: any response moves an open ticket on
StatusAfterResponse_AnyResponder(role, status) ==
    IF status = "open" THEN "in_progress" ELSE status

\* `if user['role'] in ['agent', 'admin'] and ticket['status'] == 'open'`:
\* UPDATE tickets SET status = 'in_progress'
StatusAfterResponse(role, status) ==
    IF role \in {"agent", "admin"} /\ status = "open"
    THEN "in_progress" ELSE status

\* Mutant of AccessDenied: nobody is turned away
AccessDenied_Never(user, ticket) == FALSE

\* `if user['role'] == 'customer' and ticket['customer_id'] != user['id']`
AccessDenied(user, ticket) ==
    user.role = "customer" /\ ticket.customer_id # user.id

TicketStatuses   == {"open", "in_progress", "resolved", "closed"}
TicketPriorities == {"low", "medium", "high", "critical"}

\* POST /tickets/new
new_ticket(title, description, category_id, priority) ==
    /\ app = "helpdesk"
    /\ IF ~HasUserId(session)
       THEN /\ UNCHANGED tables
            /\ resp' = PageResp("new_ticket", "redirect_login", <<>>, "", <<>>)
       ELSE IF title = NULL \/ description = NULL
               \/ priority \notin TicketPriorities
       THEN /\ UNCHANGED tables
            /\ resp' = PageResp("new_ticket", "error_500", <<>>,
                                "IntegrityError", <<>>)
       ELSE /\ Len(tables.tickets) < MaxTickets
            /\ tables' = [tables EXCEPT !.tickets = Append(@,
                 [id |-> Len(tables.tickets) + 1, title |-> title,
                  description |-> description, status |-> "open",
                  category_id |-> IntegerAffinity(category_id),
                  priority |-> priority, customer_id |-> session["user_id"],
                  \* 0 stands for NULL: no user has id 0
                  assigned_agent_id |-> 0,
                  created_at |-> CURRENT_TIMESTAMP,
                  updated_at |-> CURRENT_TIMESTAMP])]
            /\ resp' = PageResp("new_ticket", "redirect_tickets",
                                flash("Ticket created successfully!", "success"),
                                "", <<>>)
    /\ UNCHANGED <<app, clockVars, authVars, storeVars, trackerVars,
                   conns, requests, fs>>

\* POST /tickets/<ticket_id>/respond
respond_to_ticket(ticket_id, message) ==
    /\ app = "helpdesk"
    /\ LET ticket == SelectById(tables.tickets, ticket_id)
           user   == SelectById(users, session["user_id"])
           form   == <<ticket_id, message>>
       IN  IF ~HasUserId(session)
           THEN /\ UNCHANGED tables
                /\ resp' = PageResp("respond_to_ticket", "redirect_login",
                                    <<>>, "", form)
           ELSE IF message = ""
           THEN /\ UNCHANGED tables
                /\ resp' = PageResp("respond_to_ticket", "redirect_view_ticket",
                                    flash("Message cannot be empty", "error"),
                                    "", form)
           ELSE IF ticket = <<>>
           THEN /\ UNCHANGED tables
                /\ resp' = PageResp("respond_to_ticket", "redirect_tickets",
                                    flash("Ticket not found", "error"), "", form)
           ELSE IF AccessDenied(user[1], ticket[1])
           THEN /\ UNCHANGED tables
                /\ resp' = PageResp("respond_to_ticket", "redirect_tickets",
                                    flash("Access denied", "error"), "", form)
           ELSE /\ Len(tables.responses) < MaxResponses
                /\ tables' = [tables EXCEPT
                     !.responses = Append(@,
                        [id |-> Len(tables.responses) + 1,
                         ticket_id |-> ticket_id,
                         user_id |-> session["user_id"], message |-> message,
                         created_at |-> CURRENT_TIMESTAMP]),
                     !.tickets = [k \in 1..Len(@) |->
                        IF @[k].id # ticket_id THEN @[k]
                        ELSE [@[k] EXCEPT
                                !.status = StatusAfterResponse(user[1].role,
                                                               ticket[1].status),
                                !.updated_at = CURRENT_TIMESTAMP]]]
                /\ resp' = PageResp("respond_to_ticket", "redirect_view_ticket",
                                    flash("Response added successfully!", "success"),
                                    "", form)
    /\ UNCHANGED <<app, clockVars, authVars, storeVars, trackerVars,
                   conns, requests, fs>>

\* Mutant of UpdateTicket: a closed ticket cannot be given another status
UpdateTicket_ClosedIsFinal(rows, ticket_id, status, priority, assigned_agent_id) ==
    [k \in 1..Len(rows) |->
       IF rows[k].id # ticket_id THEN rows[k]
       ELSE [rows[k] EXCEPT
               !.status = IF status # "" /\ @ # "closed" THEN status ELSE @,
               !.priority = IF priority # "" THEN priority ELSE @,
               !.assigned_agent_id =
                  IF assigned_agent_id # ""
                  THEN IntegerAffinity(assigned_agent_id) ELSE @,
               !.updated_at = CURRENT_TIMESTAMP]]

\* UPDATE tickets SET <the fields that were sent>, updated_at =
\* CURRENT_TIMESTAMP WHERE id = ? ("" stands for a field that was not sent)
UpdateTicket(rows, ticket_id, status, priority, assigned_agent_id) ==
    [k \in 1..Len(rows) |->
       IF rows[k].id # ticket_id THEN rows[k]
       ELSE [rows[k] EXCEPT
               !.status = IF status # "" THEN status ELSE @,
               !.priority = IF priority # "" THEN priority ELSE @,
               !.assigned_agent_id =
                  IF assigned_agent_id # ""
                  THEN IntegerAffinity(assigned_agent_id) ELSE @,
               !.updated_at = CURRENT_TIMESTAMP]]

\* POST /tickets/<ticket_id>/update
update_ticket(ticket_id, status, priority, assigned_agent_id) ==
    /\ app = "helpdesk"
    /\ LET user == SelectById(users, session["user_id"])
           form == <<ticket_id, status, priority, assigned_agent_id>>
           assigned == AssignedAgentField(user[1].role, assigned_agent_id)
       IN  IF ~HasUserId(session)
           THEN /\ UNCHANGED tables
                /\ resp' = PageResp("update_ticket", "redirect_login", <<>>,
                                    "", form)
           ELSE IF user[1].role \notin {"agent", "admin"}
           THEN /\ UNCHANGED tables
                /\ resp' = PageResp("update_ticket", "redirect_view_ticket",
                                    flash("Access denied", "error"), "", form)
           ELSE IF status = "" /\ priority = "" /\ assigned = ""
           THEN /\ UNCHANGED tables
                /\ resp' = PageResp("update_ticket", "redirect_view_ticket",
                                    <<>>, "", form)
           ELSE IF /\ SelectById(tables.tickets, ticket_id) # <<>>
                   /\ \/ status \notin TicketStatuses \cup {""}
                      \/ priority \notin TicketPriorities \cup {""}
           THEN /\ UNCHANGED tables
                /\ resp' = PageResp("update_ticket", "error_500", <<>>,
                                    "IntegrityError", form)
           ELSE /\ tables' = [tables EXCEPT !.tickets =
                                UpdateTicket(@, ticket_id, status, priority,
                                             assigned)]
                /\ resp' = PageResp("update_ticket", "redirect_view_ticket",
                                    flash("Ticket updated successfully!", "success"),
                                    "", form)
    /\ UNCHANGED <<app, clockVars, authVars, storeVars, trackerVars,
                   conns, requests, fs>>

\* GET /tickets/<ticket_id>
view_ticket(ticket_id) ==
    /\ app = "helpdesk"
    /\ LET ticket == SelectById(tables.tickets, ticket_id)
           user   == SelectById(users, session["user_id"])
       IN  resp' =
             IF ~HasUserId(session)
             THEN PageResp("view_ticket", "redirect_login", <<>>, "",
                           <<ticket_id>>)
             ELSE IF ticket = <<>>
             THEN PageResp("view_ticket", "redirect_tickets",
                           flash("Ticket not found", "error"), "", <<ticket_id>>)
             ELSE IF AccessDenied(user[1], ticket[1])
             THEN PageResp("view_ticket", "redirect_tickets",
                           flash("Access denied", "error"), "", <<ticket_id>>)
             ELSE [PageResp("view_ticket", "render_view_ticket", <<>>, "",
                            <<ticket_id>>)
                     EXCEPT !.listing =
                       OrderBy(SelectSeq(tables.responses,
                                         LAMBDA r : r.ticket_id = ticket_id),
                               "created_at")]
    /\ UNCHANGED <<app, clockVars, authVars, storeVars, trackerVars, restVars>>

-----------------------------------------------------------------------------
(* 03-blog-system: comments on a post *)

\* The sample post init_database inserts, written by the default admin
SamplePost ==
    [id |-> 1, title |-> <<"Welcome", "to", "Our", "Blog!">>,
     content |-> <<"This", "blog", "is", "built", "with", "Flask">>,
     excerpt |-> <<"Welcome", "to", "our", "new", "blog">>,
     slug |-> "welcome-to-our-blog", status |-> "published",
     category_id |-> 1, author_id |-> 1, view_count |-> 0, created_at |-> 0]

\* init_database's default categories and tags (name is UNIQUE in both)
BlogCategories ==
    << [name |-> "Technology"], [name |-> "Travel"], [name |-> "Food"],
       [name |-> "Lifestyle"], [name |-> "Education"] >>

BlogTags ==
    << [name |-> "python"], [name |-> "flask"], [name |-> "webdev"],
       [name |-> "tutorial"], [name |-> "tips"], [name |-> "beginner"] >>

BlogTables ==
    [posts |-> <<SamplePost>>, comments |-> <<>>, post_tags |-> <<>>,
     categories |-> InsertAllOrIgnore(<<>>, BlogCategories, {"name"}),
     tags |-> InsertAllOrIgnore(<<>>, BlogTags, {"name"}),
     sqlite_sequence |-> [comments |-> 0]]

\* SELECT ... FROM posts WHERE slug = ? ... fetchone(): <<>> for None
SelectBySlug(rows, slug) ==
    LET hits == { i \in 1..Len(rows) : rows[i].slug = slug }
    IN  IF hits = {} THEN <<>> ELSE << rows[CHOOSE i \in hits : TRUE] >>

\* POST /posts/<slug>/comment
add_comment(slug, content, parent_id) ==
    /\ app = "blog"
    /\ LET post == SelectBySlug(tables.posts, slug)
           form == <<slug, content, parent_id>>
       IN  IF ~HasUserId(session)
           THEN /\ UNCHANGED tables
                /\ resp' = PageResp("add_comment", "redirect_login",
                                    flash("Please login to comment", "error"),
                                    "", form)
           ELSE IF content = ""
           THEN /\ UNCHANGED tables
                /\ resp' = PageResp("add_comment", "redirect_view_post",
                                    flash("Comment cannot be empty", "error"),
                                    "", form)
           ELSE IF post = <<>>
           THEN /\ UNCHANGED tables
                /\ resp' = PageResp("add_comment", "redirect_posts",
                                    flash("Post not found", "error"), "", form)
           ELSE /\ tables.sqlite_sequence.comments < MaxComments
                /\ tables' = [tables EXCEPT
                     !.comments = Append(@,
                        [id |-> tables.sqlite_sequence.comments + 1,
                         post_id |-> post[1].id, user_id |-> session["user_id"],
                         parent_id |-> parent_id, content |-> content,
                         is_approved |-> 1, created_at |-> CURRENT_TIMESTAMP]),
                     !.sqlite_sequence.comments = @ + 1]
                /\ resp' = PageResp("add_comment", "redirect_view_post",
                                    flash("Comment added successfully!", "success"),
                                    "", form)
    /\ UNCHANGED <<app, clockVars, authVars, storeVars, trackerVars,
                   conns, requests, fs>>

\* POST /posts/<slug>/delete
delete_post(slug) ==
    /\ app = "blog"
    /\ LET post == SelectBySlug(tables.posts, slug)
       IN  IF ~HasUserId(session)
           THEN /\ UNCHANGED tables
                /\ resp' = PageResp("delete_post", "redirect_login",
                                    flash("Please login to delete posts", "error"),
                                    "", <<slug>>)
           ELSE IF post = <<>>
           THEN /\ UNCHANGED tables
                /\ resp' = PageResp("delete_post", "redirect_posts",
                                    flash("Post not found", "error"), "", <<slug>>)
           ELSE IF post[1].author_id # session["user_id"]
           THEN /\ UNCHANGED tables
                /\ resp' = PageResp("delete_post", "redirect_view_post",
                                    flash("You can only delete your own posts",
                                          "error"),
                                    "", <<slug>>)
           ELSE /\ tables' = [tables EXCEPT
                     !.comments  = DeleteWhere(@, "post_id", post[1].id),
                     !.post_tags = DeleteWhere(@, "post_id", post[1].id),
                     !.posts     = DeleteWhere(@, "id", post[1].id)]
                /\ resp' = PageResp("delete_post", "redirect_posts",
                                    flash("Post deleted successfully!", "success"),
                                    "", <<slug>>)
    /\ UNCHANGED <<app, clockVars, authVars, storeVars, trackerVars,
                   conns, requests, fs>>

\* session.get('user_id', 0)
SessionUserId(s) == IF "user_id" \in DOMAIN s THEN s["user_id"] ELSE 0

\* GET /posts/<slug>: the page lists the post's approved top-level comments
view_post(slug) ==
    /\ app = "blog"
    /\ LET post    == SelectBySlug(tables.posts, slug)
           visible == /\ post # <<>>
                      /\ \/ post[1].status = "published"
                         \/ /\ post[1].status = "draft"
                            /\ post[1].author_id = SessionUserId(session)
       IN  IF ~visible
           THEN /\ UNCHANGED tables
                /\ resp' = PageResp("view_post", "redirect_posts",
                                    flash("Post not found", "error"), "", <<slug>>)
           ELSE /\ post[1].view_count < MaxViews
                /\ tables' = [tables EXCEPT !.posts =
                                [k \in 1..Len(@) |->
                                   IF @[k].id = post[1].id
                                   THEN [@[k] EXCEPT !.view_count = @ + 1]
                                   ELSE @[k]]]
                /\ resp' = [PageResp("view_post", "render_view_post", <<>>, "",
                                     <<slug>>)
                              EXCEPT !.listing =
                                OrderBy(SelectSeq(tables.comments,
                                          LAMBDA r : /\ r.post_id = post[1].id
                                                     /\ r.is_approved = 1
                                                     /\ r.parent_id = NULL),
                                        "created_at")]
    /\ UNCHANGED <<app, clockVars, authVars, storeVars, trackerVars,
                   conns, requests, fs>>

-----------------------------------------------------------------------------
(* Connections: handlers that return on some path without conn.close().  Such *)
(* a connection stays open, with its uncommitted statements, until the         *)
(* interpreter finalizes the unreferenced object.                              *)

\* get_db_connection() ... return, with no conn.close() in between
LeaveOpen(handler, in_transaction) ==
    /\ Len(conns) < MaxConns
    /\ conns' = Append(conns, [handler |-> handler,
                               in_transaction |-> in_transaction])

\* The interpreter finalizes an unreferenced connection: it is closed and its
\* open transaction rolled back
collect ==
    /\ conns # <<>>
    /\ \E i \in 1..Len(conns) :
         conns' = SubSeq(conns, 1, i - 1) \o SubSeq(conns, i + 1, Len(conns))
    /\ UNCHANGED <<app, clockVars, authVars, resp, storeVars, trackerVars,
                   tables, requests, fs>>

\* 07-threaded-discussion: GET /thread/<thread_id>.  The view_count UPDATE is
\* never committed: close() and the finalizer both roll it back
view_thread(thread_id) ==
    /\ app = "discussion"
    /\ IF \A i \in 1..Len(tables.threads) : tables.threads[i].id # thread_id
       THEN /\ LeaveOpen("view_thread", TRUE)
            /\ resp' = PageResp("view_thread", "redirect_index",
                                flash("Thread not found!", "error"), "",
                                <<thread_id>>)
       ELSE /\ UNCHANGED conns
            /\ resp' = [PageResp("view_thread", "render_view_thread", <<>>, "",
                                 <<thread_id>>)
                          EXCEPT !.listing =
                            OrderBy(SelectSeq(tables.posts,
                                              LAMBDA r : r.thread_id = thread_id),
                                    "created_at")]
    /\ UNCHANGED <<app, clockVars, authVars, storeVars, trackerVars,
                   tables, requests, fs>>

TrackerTables == [classes |-> <<>>, sqlite_sequence |-> [classes |-> 0]]

\* 06-student-project-tracker: POST /classes/create/
create_class(name_field, subject_field, academic_year_field) ==
    /\ app = "tracker"
    /\ LET name          == strip(name_field)
           subject       == strip(subject_field)
           academic_year == strip(academic_year_field)
           form          == <<name_field, subject_field, academic_year_field>>
       IN  IF name = <<>> \/ subject = <<>> \/ academic_year = <<>>
           THEN /\ UNCHANGED tables
                /\ resp' = PageResp("create_class", "render_create_class", <<>>,
                                    "All fields are required!", form)
           ELSE /\ tables.sqlite_sequence.classes < MaxClasses
                /\ tables' = [tables EXCEPT
                     !.classes = Append(@,
                        [id |-> tables.sqlite_sequence.classes + 1,
                         name |-> name, subject |-> subject,
                         academic_year |-> academic_year]),
                     !.sqlite_sequence.classes = @ + 1]
                /\ resp' = PageResp("create_class", "redirect_classes", <<>>,
                                    "", form)
    /\ UNCHANGED <<app, clockVars, authVars, storeVars, trackerVars,
                   conns, requests, fs>>

\* 06-student-project-tracker: GET /classes/<class_id>/
view_class(class_id) ==
    /\ app = "tracker"
    /\ IF \A i \in 1..Len(tables.classes) : tables.classes[i].id # class_id
       THEN /\ LeaveOpen("view_class", FALSE)
            /\ resp' = PageResp("view_class", "redirect_classes", <<>>, "",
                                <<class_id>>)
       ELSE /\ UNCHANGED conns
            /\ resp' = PageResp("view_class", "render_view_class", <<>>, "",
                                <<class_id>>)
    /\ UNCHANGED <<app, clockVars, authVars, storeVars, trackerVars,
                   tables, requests, fs>>

TodoTables == [todos |-> <<>>, sqlite_sequence |-> [todos |-> 0]]

\* 05-todo-system: POST /create/ (the optional fields are left at their defaults)
create_todo(title_field) ==
    /\ app = "todo"
    /\ LET title == strip(title_field)
       IN  IF title = <<>>
           THEN /\ UNCHANGED tables
                /\ resp' = PageResp("create", "render_create", <<>>,
                                    "Title is required!", <<title_field>>)
           ELSE /\ tables.sqlite_sequence.todos < MaxTodos
                /\ tables' = [tables EXCEPT
                     !.todos = Append(@,
                        [id |-> tables.sqlite_sequence.todos + 1,
                         title |-> title, completed |-> 0]),
                     !.sqlite_sequence.todos = @ + 1]
                /\ resp' = PageResp("create", "redirect_index", <<>>, "",
                                    <<title_field>>)
    /\ UNCHANGED <<app, clockVars, authVars, storeVars, trackerVars,
                   conns, requests, fs>>

\* 05-todo-system: GET or POST /edit/<id>/
edit_todo(id, method, title_field) ==
    /\ app = "todo"
    /\ LET title == strip(title_field)
           form  == <<id, method, title_field>>
       IN  IF method = "POST" /\ title = <<>>
           THEN /\ LeaveOpen("edit", FALSE)
                /\ UNCHANGED tables
                /\ resp' = PageResp("edit", "render_edit", <<>>,
                                    "Title is required!", form)
           ELSE IF method = "POST"
           THEN /\ UNCHANGED conns
                /\ tables' = [tables EXCEPT !.todos =
                                [i \in 1..Len(@) |->
                                   IF @[i].id = id
                                   THEN [@[i] EXCEPT !.title = title]
                                   ELSE @[i]]]
                /\ resp' = PageResp("edit", "redirect_index", <<>>, "", form)
           ELSE /\ UNCHANGED <<conns, tables>>
                /\ resp' = PageResp("edit", "render_edit", <<>>, "", form)
    /\ UNCHANGED <<app, clockVars, authVars, storeVars, trackerVars,
                   requests, fs>>

-----------------------------------------------------------------------------
(* 04-school-store: checkout on concurrent workers.  Each worker runs the      *)
(* handler on its own connection, statement by statement.  SQLite lets one     *)
(* connection at a time hold the write lock: it is taken by a transaction's    *)
(* first write statement and held until commit or rollback; a statement that   *)
(* finds it taken waits and, when the busy timeout runs out, raises            *)
(* OperationalError('database is locked').                                    *)

Workers == {1, 2}

IdleRequest ==
    [pc |-> "idle", items |-> <<>>, transaction_id |-> <<>>, line |-> 0,
     db |-> <<>>, result |-> "none"]

\* Mutant of WriteLockFree: the database file is not locked
WriteLockFree_Always(reqs, w) == TRUE

\* No other connection is inside a write transaction
WriteLockFree(reqs, w) ==
    \A v \in Workers \ {w} : reqs[v].pc \notin {"lines", "commit"}

\* The request arrives: session and cart checks, total, transaction id
checkout_begin(w, items) ==
    /\ app = "store"
    /\ requests[w].pc = "idle"
    /\ requests' = [requests EXCEPT ![w] =
         IF ~HasUserId(session)
         THEN [@ EXCEPT !.pc = "done", !.result = "redirect_login"]
         ELSE IF items = <<>>
         THEN [@ EXCEPT !.pc = "done", !.result = "no_items"]
         ELSE [@ EXCEPT !.pc = "insert_sale", !.items = items,
                        !.transaction_id = generate_transaction_id(now)]]
    /\ UNCHANGED <<app, clockVars, authVars, resp, storeVars, trackerVars,
                   tables, conns, fs>>

\* INSERT INTO sales, the transaction's first write
checkout_insert_sale(w) ==
    /\ app = "store"
    /\ requests[w].pc = "insert_sale"
    /\ WriteLockFree(requests, w)
    /\ LET ins == InsertSale(StoreDb, requests[w].transaction_id,
                             session["user_id"],
                             total_amount(requests[w].items), "cash")
       IN  requests' = [requests EXCEPT ![w] =
             IF ins.ok
             THEN [@ EXCEPT !.pc = "lines", !.line = 1, !.db = ins.db]
             ELSE [@ EXCEPT !.pc = "done", !.result = "failed"]]
    /\ UNCHANGED <<app, clockVars, authVars, resp, storeVars, trackerVars,
                   tables, conns, fs>>

\* The busy timeout runs out while another connection holds the write lock
checkout_locked(w) ==
    /\ app = "store"
    /\ requests[w].pc = "insert_sale"
    /\ ~WriteLockFree(requests, w)
    /\ requests' = [requests EXCEPT ![w] =
                      [@ EXCEPT !.pc = "done", !.result = "failed"]]
    /\ UNCHANGED <<app, clockVars, authVars, resp, storeVars, trackerVars,
                   tables, conns, fs>>

\* One turn of the loop: INSERT INTO sale_items, UPDATE products
checkout_line(w) ==
    /\ app = "store"
    /\ requests[w].pc = "lines"
    /\ LET r   == requests[w]
           ins == InsertSaleItem(r.db, Len(r.db.sales), r.items[r.line])
           upd == UpdateStock(ins.db, r.items[r.line])
       IN  requests' = [requests EXCEPT ![w] =
             IF ~ins.ok \/ ~upd.ok
             THEN [@ EXCEPT !.pc = "done", !.result = "failed",
                            !.db = <<>>]
             ELSE [@ EXCEPT !.db = upd.db,
                            !.line = r.line + 1,
                            !.pc = IF r.line = Len(r.items) THEN "commit"
                                   ELSE "lines"]]
    /\ UNCHANGED <<app, clockVars, authVars, resp, storeVars, trackerVars,
                   tables, conns, fs>>

\* conn.commit(): the transaction's tables become the database's
checkout_commit(w) ==
    /\ app = "store"
    /\ requests[w].pc = "commit"
    /\ products' = requests[w].db.products
    /\ sales' = requests[w].db.sales
    /\ sale_items' = requests[w].db.sale_items
    /\ requests' = [requests EXCEPT ![w] =
                      [@ EXCEPT !.pc = "done", !.result = "success",
                                !.db = <<>>]]
    /\ UNCHANGED <<app, clockVars, authVars, resp, trackerVars,
                   tables, conns, fs>>

-----------------------------------------------------------------------------
(* solution_template_project_one/update_database.py *)

REQUIRED_TABLES == {"users", "categories", "tags", "items", "item_tags"}

\* A table name that is an SQL keyword: CREATE TABLE "order" makes it, and
\* the unquoted SELECT COUNT(*) FROM order is a syntax error
KeywordTables == {"order"}

\* schema.sql as the student left it
NoSchemaFile    == [exists |-> FALSE, blank |-> TRUE, parses |-> FALSE, creates |-> {}]
BlankSchema     == [exists |-> TRUE, blank |-> TRUE, parses |-> TRUE, creates |-> {}]
BrokenSchema    == [exists |-> TRUE, blank |-> FALSE, parses |-> FALSE, creates |-> {"users"}]
PartialSchema   == [exists |-> TRUE, blank |-> FALSE, parses |-> TRUE, creates |-> {"users", "items"}]
TemplateSchema  == [exists |-> TRUE, blank |-> FALSE, parses |-> TRUE, creates |-> REQUIRED_TABLES]
ExtendedSchema  ==
    [exists |-> TRUE, blank |-> FALSE, parses |-> TRUE,
     creates |-> REQUIRED_TABLES \cup KeywordTables]

Schemas ==
    {NoSchemaFile, BlankSchema, BrokenSchema, PartialSchema, TemplateSchema,
     ExtendedSchema}

\* db/app.db: whether the file is there, and the row count of each table
NoDatabase == [exists |-> FALSE, rows |-> EmptyDict]

\* sqlite3.connect(path) followed by executescript(schema_sql) on a new file
NewDatabase(schema) == [exists |-> TRUE, rows |-> [t \in schema.creates |-> 0]]

WithRows(db, table, n) == [db EXCEPT !.rows[table] = n]

\* Databases an earlier schema and the running app can have left behind
Databases ==
    { NoDatabase,
      [exists |-> TRUE, rows |-> EmptyDict],
      NewDatabase(TemplateSchema),
      WithRows(NewDatabase(TemplateSchema), "users", 1),
      WithRows(WithRows(NewDatabase(TemplateSchema), "users", 1), "items", 2),
      NewDatabase(ExtendedSchema),
      WithRows(NewDatabase(ExtendedSchema), "order", 1),
      WithRows(WithRows(NewDatabase(ExtendedSchema), "order", 1), "users", 1) }

\* str.lower() of one token
LowerToken(tok) ==
    CASE tok \in {"YES", "Yes", "yes"} -> "yes"
      [] tok \in {"NO", "no"} -> "no"
      [] tok \in {"Flask", "flask"} -> "flask"
      [] tok \in {"Welcome", "welcome"} -> "welcome"
      [] OTHER -> tok

\* str.lower()
lower(str) == [i \in 1..Len(str) |-> LowerToken(str[i])]

\* check_schema_file(): the file is there and not blank
check_schema_file(files) == files.schema.exists /\ ~files.schema.blank

\* validate_schema_syntax(): executescript on db/temp_test.db; the temporary
\* file is removed only when the script ran without an sqlite3.Error
validate_schema_syntax(files) ==
    IF ~files.schema.parses
    THEN [ok |-> FALSE, files |-> [files EXCEPT !.temp = TRUE]]
    ELSE [ok |-> REQUIRED_TABLES \subseteq files.schema.creates,
          files |-> [files EXCEPT !.temp = FALSE]]

RECURSIVE SumOver(_, _)
SumOver(f, S) ==
    IF S = {} THEN 0
    ELSE LET x == CHOOSE y \in S : TRUE IN f[x] + SumOver(f, S \ {x})

\* total_records: SELECT COUNT(*) FROM <table> for each table; a table whose
\* count raises sqlite3.Error is skipped
total_records(db) == SumOver(db.rows, DOMAIN db.rows \ KeywordTables)

\* backup_existing_database(): <<>> for None, else the timestamp in the name
\* of the copy; `copy_raises` is os.makedirs or shutil.copy2 raising (backups
\* directory not writable, disk full), which the except clause turns into None
backup_existing_database(files, copy_raises) ==
    IF ~files.db.exists
    THEN [backup_path |-> <<>>, files |-> files]
    ELSE IF DOMAIN files.db.rows = {}
    THEN [backup_path |-> <<>>, files |-> files]
    ELSE IF total_records(files.db) = 0
    THEN [backup_path |-> <<>>, files |-> files]
    ELSE IF copy_raises
    THEN [backup_path |-> <<>>, files |-> files]
    ELSE [backup_path |-> <<CURRENT_TIMESTAMP>>,
          files |-> [files EXCEPT !.backups =
                       DictSet(@, CURRENT_TIMESTAMP, files.db)]]

\* apply_new_schema(): os.remove(DB_PATH), then the schema on a new file
apply_new_schema(files) == [files EXCEPT !.db = NewDatabase(files.schema)]

Responses == { <<"yes">>, <<" ", "YES">>, <<"no">>, <<>> }

UpdateResp(outcome, success, form) ==
    [NoResp EXCEPT !.handler = "main", !.outcome = outcome,
                   !.success = success, !.form = form, !.pre = Snapshot]

\* main(): one run of the script; `response` is what the student types
main(response, copy_raises) ==
    /\ app = "update_database"
    /\ LET form      == <<response, copy_raises>>
           validated == validate_schema_syntax(fs)
           backup    == backup_existing_database(validated.files, copy_raises)
       IN  IF lower(strip(response)) # <<"yes">>
           THEN /\ UNCHANGED fs
                /\ resp' = UpdateResp("cancelled", FALSE, form)
           ELSE IF ~check_schema_file(fs)
           THEN /\ UNCHANGED fs
                /\ resp' = UpdateResp("schema_file_rejected", FALSE, form)
           ELSE IF ~validated.ok
           THEN /\ fs' = validated.files
                /\ resp' = UpdateResp("schema_invalid", FALSE, form)
           ELSE /\ fs' = apply_new_schema(backup.files)
                /\ resp' = UpdateResp(IF backup.backup_path = <<>>
                                      THEN "updated_without_backup"
                                      ELSE "updated_with_backup",
                                      TRUE, form)
    /\ UNCHANGED <<app, clockVars, authVars, storeVars, trackerVars,
                   tables, conns, requests>>

\* The student edits schema.sql between runs
edit_schema(schema) ==
    /\ app = "update_database"
    /\ fs.schema # schema
    /\ fs' = [fs EXCEPT !.schema = schema]
    /\ UNCHANGED <<app, clockVars, authVars, resp, storeVars, trackerVars,
                   tables, conns, requests>>

-----------------------------------------------------------------------------
(* 03-blog-system: the post list *)

\* Posts as new_post leaves them: one by ann in the Travel category tagged
\* flask, one by the admin in Technology tagged python
AnnPost(status) ==
    [id |-> 2, title |-> <<"Flask", "tips">>, content |-> <<"routes">>,
     excerpt |-> <<>>, slug |-> "flask-tips", status |-> status,
     category_id |-> 2, author_id |-> 2, view_count |-> 0, created_at |-> 0]

AdminPost(status) ==
    [id |-> 3, title |-> <<"Python", "notes">>, content |-> <<"welcome", "back">>,
     excerpt |-> <<>>, slug |-> "python-notes", status |-> status,
     category_id |-> 1, author_id |-> 1, view_count |-> 0, created_at |-> 0]

PostStatuses == {"draft", "published", "archived"}

\* text LIKE '%' || pattern || '%': the pattern's words appear in the text,
\* next to each other, whatever their case
Like(text, pattern) ==
    \E i \in 0..(Len(text) - Len(pattern)) :
      lower(SubSeq(text, i + 1, i + Len(pattern))) = lower(pattern)

\* LEFT JOIN categories c ON p.category_id = c.id: c.name
CategoryName(t, post) == SelectById(t.categories, post.category_id)[1].name

\* p.id IN (SELECT pt.post_id FROM post_tags pt JOIN tags t ON pt.tag_id =
\* t.id WHERE t.name = ?)
HasTag(t, post, tag_name) ==
    \E i \in 1..Len(t.post_tags), j \in 1..Len(t.tags) :
      /\ t.post_tags[i].post_id = post.id
      /\ t.post_tags[i].tag_id = t.tags[j].id
      /\ t.tags[j].name = tag_name

\* ORDER BY <column> DESC: rows with equal keys keep their rowid order
RECURSIVE OrderByDesc(_, _)
OrderByDesc(rows, column) ==
    IF rows = <<>> THEN <<>>
    ELSE LET first == CHOOSE i \in 1..Len(rows) :
                        \A j \in 1..Len(rows) :
                          \/ rows[i][column] > rows[j][column]
                          \/ rows[i][column] = rows[j][column] /\ i <= j
         IN  <<rows[first]>> \o
             OrderByDesc(SubSeq(rows, 1, first - 1) \o
                         SubSeq(rows, first + 1, Len(rows)), column)

\* The WHERE clause posts() builds: "p.status = 'published' OR (p.status =
\* 'draft' AND p.author_id = ?)" followed by " AND ..." for each filter that
\* was sent.  AND binds tighter than OR, so the appended conditions join the
\* second operand of the OR.
PostsWhere(t, post, user_id, category_filter, tag_filter, search_query) ==
    \/ post.status = "published"
    \/ /\ post.status = "draft" /\ post.author_id = user_id
       /\ category_filter # "" => CategoryName(t, post) = category_filter
       /\ tag_filter # "" => HasTag(t, post, tag_filter)
       /\ search_query # <<>> =>
            \/ Like(post.title, search_query)
            \/ Like(post.content, search_query)
            \/ Like(post.excerpt, search_query)

\* GET /posts
posts(category_filter, tag_filter, search_query) ==
    /\ app = "blog"
    /\ resp' = [PageResp("posts", "render_posts", <<>>, "",
                         <<category_filter, tag_filter, search_query>>)
                  EXCEPT !.listing =
                    OrderByDesc(
                      SelectSeq(tables.posts,
                        LAMBDA p :
                          /\ SelectById(users, p.author_id) # <<>>
                          /\ PostsWhere(tables, p, SessionUserId(session),
                                        category_filter, tag_filter,
                                        search_query)),
                      "created_at")]
    /\ UNCHANGED <<app, clockVars, authVars, storeVars, trackerVars, restVars>>

-----------------------------------------------------------------------------
(* 02-helpdesk-system: the ticket list *)

\* The conditions appended for the filters that were sent: " AND t.status = ?
\* AND t.priority = ? AND t.category_id = ?"
TicketFilters(ticket, status_filter, priority_filter, category_filter) ==
    /\ status_filter # "" => ticket.status = status_filter
    /\ priority_filter # "" => ticket.priority = priority_filter
    /\ category_filter # "" =>
         ticket.category_id = IntegerAffinity(category_filter)

\* The rows the query tickets() builds selects.  The agent's and the
\* customer's query end in a WHERE clause, and the appended conditions
\* continue it.  The admin's query ends in "LEFT JOIN categories c ON
\* t.category_id = c.id", so there the appended conditions continue the ON
\* clause of the left join: they decide whether a category is joined to the
\* ticket, never whether the ticket is selected.
TicketsQuery(rows, all_users, user, status_filter, priority_filter, category_filter) ==
    SelectSeq(rows,
      LAMBDA t :
        CASE user.role = "admin" -> SelectById(all_users, t.customer_id) # <<>>
          [] user.role = "agent" ->
               /\ SelectById(all_users, t.customer_id) # <<>>
               /\ t.assigned_agent_id = user.id
               /\ TicketFilters(t, status_filter, priority_filter, category_filter)
          [] OTHER ->
               /\ t.customer_id = user.id
               /\ TicketFilters(t, status_filter, priority_filter, category_filter))

\* GET /tickets
tickets(status_filter, priority_filter, category_filter) ==
    /\ app = "helpdesk"
    /\ LET form == <<status_filter, priority_filter, category_filter>>
       IN  resp' =
             IF ~HasUserId(session)
             THEN PageResp("tickets", "redirect_login", <<>>, "", form)
             ELSE [PageResp("tickets", "render_tickets", <<>>, "", form)
                     EXCEPT !.listing =
                       OrderByDesc(
                         TicketsQuery(tables.tickets, users,
                                      SelectById(users, session["user_id"])[1],
                                      status_filter, priority_filter,
                                      category_filter),
                         "updated_at")]
    /\ UNCHANGED <<app, clockVars, authVars, storeVars, trackerVars, restVars>>

\* Staff and customers of a help desk in use: the seeded admin, an agent, and
\* the customer ann
DeskUsers ==
    SeedUsers("helpdesk") \o
    << [id |-> 2, username |-> <<"bob">>, email |-> "bob@example.com",
        password |-> <<"pw">>, role |-> "agent"],
       [id |-> 3, username |-> <<"ann">>, email |-> "ann@example.com",
        password |-> <<"pw">>, role |-> "customer"] >>

\* A ticket as new_ticket and the updates since have left it
DeskTicket(id, customer_id, status, priority, category_id, assigned_agent_id) ==
    [id |-> id, title |-> "Printer", description |-> "It is on fire",
     status |-> status, category_id |-> category_id, priority |-> priority,
     customer_id |-> customer_id, assigned_agent_id |-> assigned_agent_id,
     created_at |-> 0, updated_at |-> 0]

-----------------------------------------------------------------------------
(* 07-threaded-discussion: likes.  The server handles requests in threads, *)
(* each on its own connection; like() reads, then writes and commits.      *)

NoLikeRequest == [pc |-> "idle", type |-> "", item_id |-> 0, existing_like |-> FALSE]

\* The column a like of this type fills; the other one stays NULL, written 0
\* here (no thread or post has id 0)
LikeRow(user_id, type, item_id) ==
    [user_id |-> user_id,
     thread_id |-> IF type = "thread" THEN item_id ELSE 0,
     post_id |-> IF type = "post" THEN item_id ELSE 0]

\* SELECT * FROM likes WHERE user_id = ? AND thread_id = ? (or post_id = ?)
LikesOf(rows, user_id, type, item_id) ==
    SelectSeq(rows, LAMBDA r :
      /\ r.user_id = user_id
      /\ IF type = "thread" THEN r.thread_id = item_id ELSE r.post_id = item_id)

\* UNIQUE(user_id, thread_id, post_id): a NULL is distinct from every value,
\* also from another NULL, so two rows conflict only when all three columns
\* are filled and equal
LikeConflicts(rows, row) ==
    \E i \in 1..Len(rows) :
      /\ rows[i].user_id = row.user_id
      /\ row.thread_id # 0 /\ rows[i].thread_id = row.thread_id
      /\ row.post_id # 0 /\ rows[i].post_id = row.post_id

\* POST /like/<type>/<item_id>, up to the SELECT: user_id is always 1
like_select(w, type, item_id) ==
    /\ app = "discussion"
    /\ requests[w].pc = "idle"
    /\ requests' = [requests EXCEPT ![w] =
         [pc |-> "write", type |-> type, item_id |-> item_id,
          existing_like |-> LikesOf(tables.likes, 1, type, item_id) # <<>>]]
    /\ UNCHANGED <<app, clockVars, authVars, resp, storeVars, trackerVars,
                   tables, conns, fs>>

\* like(), from the DELETE or INSERT to the response
like_write(w) ==
    /\ app = "discussion"
    /\ requests[w].pc = "write"
    /\ LET type    == requests[w].type
           item_id == requests[w].item_id
           row     == LikeRow(1, type, item_id)
           form    == <<type, item_id, w>>
       IN  IF type \notin {"thread", "post"}
           THEN \* `liked` was never assigned
                /\ UNCHANGED tables
                /\ resp' = PageResp("like", "error_500", <<>>,
                                    "UnboundLocalError", form)
           ELSE IF requests[w].existing_like
           THEN /\ tables' = [tables EXCEPT !.likes =
                     SelectSeq(@, LAMBDA r :
                       ~(/\ r.user_id = 1
                         /\ IF type = "thread" THEN r.thread_id = item_id
                            ELSE r.post_id = item_id))]
                /\ resp' = PageResp("like", "unliked", <<>>, "", form)
           ELSE IF LikeConflicts(tables.likes, row)
           THEN /\ UNCHANGED tables
                /\ resp' = PageResp("like", "error_500", <<>>,
                                    "IntegrityError", form)
           ELSE /\ tables.sqlite_sequence.likes < MaxLikes
                /\ tables' = [tables EXCEPT
                     !.likes = Append(@,
                        [id |-> tables.sqlite_sequence.likes + 1,
                         user_id |-> row.user_id, thread_id |-> row.thread_id,
                         post_id |-> row.post_id,
                         created_at |-> CURRENT_TIMESTAMP]),
                     !.sqlite_sequence.likes = @ + 1]
                /\ resp' = PageResp("like", "liked", <<>>, "", form)
    /\ requests' = [requests EXCEPT ![w] = NoLikeRequest]
    /\ UNCHANGED <<app, clockVars, authVars, storeVars, trackerVars, conns, fs>>

-----
(* Specifications *)

\* The school store, started on a database that init_database has seeded and
\* whose inventory was entered before
InitStore ==
    /\ app = "store"
    /\ now = 0
    /\ today = 0
    /\ users = <<StoreAdmin>>
    /\ session = EmptyDict
    /\ products \in StoreInventories
    /\ sales = <<>>
    /\ sale_items = <<>>
    /\ projects = <<>>
    /\ checkpoints = <<>>
    /\ NoOtherState
    /\ resp = [NoResp EXCEPT !.pre = Snapshot]

NextStore ==
    \/ Tick
    \/ \E c \in StoreLogins : login_store(c.username, c.password)
    \/ \E items \in Carts, pm \in PaymentMethods :
         \E fault \in 0..(2 * Len(items) + 2) : checkout(items, pm, fault)

SpecStore == InitStore /\ [][NextStore]_vars

\* The project tracker on a database init_db has created
InitTracker ==
    /\ app = "tracker"
    /\ now = 0
    /\ today \in Todays
    /\ users = <<>>
    /\ session = EmptyDict
    /\ products = [p \in {} |-> NULL]
    /\ sales = <<>>
    /\ sale_items = <<>>
    /\ projects = <<>>
    /\ checkpoints = <<>>
    /\ NoOtherState
    /\ resp = [NoResp EXCEPT !.pre = Snapshot]

NextTracker ==
    \/ \E d \in DueDates(today), pts \in PointTotals : create_checkpoints(d, pts)
    \/ \E t \in ProjectTitles, d \in DueDates(today) \cup {<<>>} :
         create_project(t, "1", d, 100)

SpecTracker == InitTracker /\ [][NextTracker]_vars

\* Any of the apps with users, on the database its initializer leaves
InitAuth ==
    /\ app \in AuthApps
    /\ now = 0
    /\ today = 0
    /\ users = SeedUsers(app)
    /\ session = EmptyDict
    /\ products = [p \in {} |-> NULL]
    /\ sales = <<>>
    /\ sale_items = <<>>
    /\ projects = <<>>
    /\ checkpoints = <<>>
    /\ NoOtherState
    /\ resp = [NoResp EXCEPT !.pre = Snapshot]

NextAuth ==
    \/ \E u \in TrimUsernames, p \in TrimPasswords, st \in Statuses :
         register_crud(u, p, st)
    \/ \E u \in TrimUsernames, p \in TrimPasswords : login_crud(u, p)
    \/ \E u \in RawUsernames, e \in Emails, p \in RawPasswords :
         register_helpdesk(u, e, p)
    \/ \E u \in RawUsernames, p \in RawPasswords : login_helpdesk(u, p)
    \/ \E u \in RawUsernames, e \in Emails, p \in RawPasswords :
         register_blog(u, e, p)
    \/ \E u \in RawUsernames, p \in RawPasswords : login_blog(u, p)
    \/ \E u \in TrimUsernames, p \in TrimPasswords : register_template(u, p)
    \/ \E u \in TrimUsernames, p \in TrimPasswords : login_template(u, p)
    \/ \E u \in RawUsernames \cup {<<>>}, p \in RawPasswords : login_store(u, p)
    \/ logout

SpecAuth == InitAuth /\ [][NextAuth]_vars

\* The apps with admin routes, each on the database its initializer leaves
AdminApps == {"crud", "helpdesk", "blog", "store", "discussion"}

InitAdmin ==
    /\ app \in AdminApps
    /\ now = 0
    /\ today = 0
    /\ users = IF app = "discussion" THEN <<DiscussionAdmin>> ELSE SeedUsers(app)
    /\ session = EmptyDict
    /\ products = [p \in {} |-> NULL]
    /\ sales = <<>>
    /\ sale_items = <<>>
    /\ projects = <<>>
    /\ checkpoints = <<>>
    /\ tables = IF app = "discussion" THEN DiscussionTables ELSE EmptyDict
    /\ conns = <<>>
    /\ requests = <<>>
    /\ fs = EmptyDict
    /\ resp = [NoResp EXCEPT !.pre = Snapshot]

ThreadIds == 1..MaxThreads

NextAdmin ==
    \/ \E u \in {<<"ann">>, <<"bob">>}, st \in {"guest", "admin"} :
         register_crud(u, <<"pw">>, st)
    \/ \E u \in {<<"ann">>, <<"bob">>} : login_crud(u, <<"pw">>)
    \/ admin_dashboard_crud
    \/ \E id \in 1..3, m \in {"GET", "POST"}, st \in Statuses,
          p \in {<<>>, <<"x">>} :
         edit_user(id, m, st, p)
    \/ register_helpdesk(<<"ann">>, "ann@example.com", <<"pw">>)
    \/ \E u \in {<<"admin">>, <<"ann">>}, p \in RawPasswords : login_helpdesk(u, p)
    \/ admin_dashboard_helpdesk
    \/ register_blog(<<"ann">>, "ann@example.com", <<"pw">>)
    \/ \E u \in {<<"admin">>, <<"ann">>}, p \in RawPasswords : login_blog(u, p)
    \/ admin_dashboard_blog
    \/ \E p \in RawPasswords : login_store(<<"admin">>, p)
    \/ admin_dashboard_store
    \/ logout
    \/ \E t \in {"", "Hello"}, c \in {"", "1"} : create_thread(t, "text", c)
    \/ \E id \in ThreadIds, c \in {"", "me too"} : reply_to_thread(id, c)
    \/ admin_dashboard_discussion
    \/ \E id \in ThreadIds : toggle_pin_thread(id)
    \/ \E id \in ThreadIds : delete_thread(id)

SpecAdmin == InitAdmin /\ [][NextAdmin]_vars

InitItems ==
    /\ app = "crud"
    /\ now = 0
    /\ today = 0
    /\ users = <<>>
    /\ session = EmptyDict
    /\ products = [p \in {} |-> NULL]
    /\ sales = <<>>
    /\ sale_items = <<>>
    /\ projects = <<>>
    /\ checkpoints = <<>>
    /\ tables = CrudTables
    /\ conns = <<>>
    /\ requests = <<>>
    /\ fs = EmptyDict
    /\ resp = [NoResp EXCEPT !.pre = Snapshot]

ItemNames        == { <<>>, <<" ">>, <<"pen">>, <<" ", "pen", " ">> }
ItemDescriptions == { <<>>, <<"blue">>, <<"blue", " ", "ink", " ">> }
ItemIds          == 1..MaxItems

NextItems ==
    \/ \E n \in ItemNames, d \in ItemDescriptions : create(n, d)
    \/ \E id \in ItemIds, m \in {"GET", "POST"},
          n \in {<<>>, <<"cap", " ">>}, d \in {<<"red">>} :
         edit(id, m, n, d)
    \/ \E id \in ItemIds : delete(id)

SpecItems == InitItems /\ [][NextItems]_vars

ConnApps == {"discussion", "tracker", "todo"}

InitConn ==
    /\ app \in ConnApps
    /\ now = 0
    /\ today = 0
    /\ users = IF app = "discussion" THEN <<DiscussionAdmin>> ELSE <<>>
    /\ session = EmptyDict
    /\ products = [p \in {} |-> NULL]
    /\ sales = <<>>
    /\ sale_items = <<>>
    /\ projects = <<>>
    /\ checkpoints = <<>>
    /\ tables = CASE app = "discussion" -> DiscussionTables
                  [] app = "tracker" -> TrackerTables
                  [] OTHER -> TodoTables
    /\ conns = <<>>
    /\ requests = <<>>
    /\ fs = EmptyDict
    /\ resp = [NoResp EXCEPT !.pre = Snapshot]

NextConn ==
    \/ \E t \in {"", "Hello"} : create_thread(t, "text", "1")
    \/ \E id \in ThreadIds : view_thread(id)
    \/ \E id \in ThreadIds : delete_thread(id)
    \/ \E n \in {<<>>, <<"9B", " ">>} : create_class(n, <<"Math">>, <<"2025">>)
    \/ \E id \in 1..MaxClasses : view_class(id)
    \/ \E t \in {<<>>, <<"milk">>, <<" ", "eggs">>} : create_todo(t)
    \/ \E id \in 1..MaxTodos, m \in {"GET", "POST"}, t \in {<<>>, <<"tea">>} :
         edit_todo(id, m, t)
    \/ collect

SpecConn == InitConn /\ [][NextConn]_vars

\* The cashier has logged in; a checkout request is about to reach each worker
InitConcurrent ==
    /\ app = "store"
    /\ now = 0
    /\ today = 0
    /\ users = <<StoreAdmin>>
    /\ session = LoginSession(EmptyDict, StoreAdmin, "role")
    /\ products \in StoreInventories
    /\ sales = <<>>
    /\ sale_items = <<>>
    /\ projects = <<>>
    /\ checkpoints = <<>>
    /\ tables = EmptyDict
    /\ conns = <<>>
    /\ requests = [w \in Workers |-> IdleRequest]
    /\ fs = EmptyDict
    /\ resp = [NoResp EXCEPT !.pre = Snapshot]

\* Carts of at most two lines; the two-line ones name a product on each line
ConcurrentCarts ==
    { c \in Carts : Len(c) <= 1 \/ (Len(c) = 2 /\ c[1].has_id /\ c[2].has_id) }

NextConcurrent ==
    \/ Tick
    \/ \E w \in Workers, items \in ConcurrentCarts : checkout_begin(w, items)
    \/ \E w \in Workers : checkout_insert_sale(w)
    \/ \E w \in Workers : checkout_locked(w)
    \/ \E w \in Workers : checkout_line(w)
    \/ \E w \in Workers : checkout_commit(w)

SpecConcurrent == InitConcurrent /\ [][NextConcurrent]_vars

InitApps == {"helpdesk", "store", "discussion"}

\* Each app on the database its initializer's first run leaves
InitInit ==
    /\ app \in InitApps
    /\ now = 0
    /\ today = 0
    /\ users = IF app = "discussion" THEN <<DiscussionAdmin>> ELSE SeedUsers(app)
    /\ session = EmptyDict
    /\ products = [p \in {} |-> NULL]
    /\ sales = <<>>
    /\ sale_items = <<>>
    /\ projects = <<>>
    /\ checkpoints = <<>>
    /\ tables = CASE app = "discussion" -> DiscussionTables
                  [] app = "helpdesk" -> HelpdeskTables
                  [] OTHER ->
                       [categories |->
                          InsertAllOrIgnore(<<>>, StoreCategories, {"name"})]
    /\ conns = <<>>
    /\ requests = <<>>
    /\ fs = EmptyDict
    /\ resp = [NoResp EXCEPT !.pre = Snapshot]

NextInit ==
    \/ init_database_helpdesk
    \/ init_database_store
    \/ init_db_discussion
    \/ \E u \in RawUsernames, e \in Emails : register_helpdesk(u, e, <<"pw">>)
    \/ \E u \in RawUsernames, p \in RawPasswords : login_helpdesk(u, p)
    \/ \E p \in RawPasswords : login_store(<<"admin">>, p)
    \/ logout
    \/ \E t \in {"", "Hello"} : create_thread(t, "text", "1")
    \/ \E id \in ThreadIds : delete_thread(id)

SpecInit == InitInit /\ [][NextInit]_vars

ReplyApps == {"helpdesk", "blog", "discussion"}

InitReplies ==
    /\ app \in ReplyApps
    /\ now = 0
    /\ today = 0
    /\ users = IF app = "discussion" THEN <<DiscussionAdmin>> ELSE SeedUsers(app)
    /\ session = EmptyDict
    /\ products = [p \in {} |-> NULL]
    /\ sales = <<>>
    /\ sale_items = <<>>
    /\ projects = <<>>
    /\ checkpoints = <<>>
    /\ tables = CASE app = "discussion" -> DiscussionTables
                  [] app = "helpdesk" -> HelpdeskTables
                  [] OTHER -> BlogTables
    /\ conns = <<>>
    /\ requests = <<>>
    /\ fs = EmptyDict
    /\ resp = [NoResp EXCEPT !.pre = Snapshot]

Credentials ==
    { [username |-> <<"admin">>, password |-> <<"admin123">>],
      [username |-> <<"ann">>, password |-> <<"pw">>] }

NextReplies ==
    \/ Tick
    \/ register_helpdesk(<<"ann">>, "ann@example.com", <<"pw">>)
    \/ \E c \in Credentials : login_helpdesk(c.username, c.password)
    \/ new_ticket("Printer", "It is on fire", "1", "high")
    \/ \E m \in {"", "Looking into it"} : respond_to_ticket(1, m)
    \/ \E st \in TicketStatuses \cup {"", "done"} : update_ticket(1, st, "", "")
    \/ \E id \in 1..2 : view_ticket(id)
    \/ register_blog(<<"ann">>, "ann@example.com", <<"pw">>)
    \/ \E c \in Credentials : login_blog(c.username, c.password)
    \/ \E c \in {"", "Nice post"} : add_comment("welcome-to-our-blog", c, NULL)
    \/ \E sl \in {"welcome-to-our-blog", "no-such-post"} : delete_post(sl)
    \/ \E sl \in {"welcome-to-our-blog", "no-such-post"} : view_post(sl)
    \/ create_thread("Hello", "text", "1")
    \/ \E id \in ThreadIds, c \in {"", "me too"} : reply_to_thread(id, c)
    \/ \E id \in ThreadIds : view_thread(id)
    \/ \E id \in ThreadIds : delete_thread(id)
    \/ collect

SpecReplies == InitReplies /\ [][NextReplies]_vars

InitUpdate ==
    /\ app = "update_database"
    /\ now = 0
    /\ today = 0
    /\ users = <<>>
    /\ session = EmptyDict
    /\ products = [p \in {} |-> NULL]
    /\ sales = <<>>
    /\ sale_items = <<>>
    /\ projects = <<>>
    /\ checkpoints = <<>>
    /\ tables = EmptyDict
    /\ conns = <<>>
    /\ requests = <<>>
    /\ \E schema \in {TemplateSchema, BrokenSchema}, db \in Databases :
         fs = [schema |-> schema, db |-> db, backups |-> EmptyDict,
               temp |-> FALSE]
    /\ resp = [NoResp EXCEPT !.pre = Snapshot]

NextUpdate ==
    \/ Tick
    \/ \E s \in Schemas : edit_schema(s)
    \/ \E r \in Responses, copy_raises \in BOOLEAN : main(r, copy_raises)

SpecUpdate == InitUpdate /\ [][NextUpdate]_vars

\* The blog with the admin and ann registered and three posts written
InitBlog ==
    /\ app = "blog"
    /\ now = 0
    /\ today = 0
    /\ users = InsertUser(SeedUsers("blog"),
                          [username |-> <<"ann">>, email |-> "ann@example.com",
                           password |-> <<"pw">>, bio |-> "", is_admin |-> 0],
                          {"username", "email"}).rows
    /\ session = EmptyDict
    /\ products = [p \in {} |-> NULL]
    /\ sales = <<>>
    /\ sale_items = <<>>
    /\ projects = <<>>
    /\ checkpoints = <<>>
    /\ \E s2 \in {"draft", "published"}, s3 \in PostStatuses :
         tables = [BlogTables EXCEPT
                     !.posts = @ \o <<AnnPost(s2), AdminPost(s3)>>,
                     !.post_tags = << [post_id |-> 2, tag_id |-> 2],
                                      [post_id |-> 3, tag_id |-> 1] >>]
    /\ conns = <<>>
    /\ requests = <<>>
    /\ fs = EmptyDict
    /\ resp = [NoResp EXCEPT !.pre = Snapshot]

PostSlugs == {"welcome-to-our-blog", "flask-tips", "python-notes", "no-such-post"}

NextBlog ==
    \/ \E c \in Credentials : login_blog(c.username, c.password)
    \/ logout
    \/ \E sl \in PostSlugs \ {"python-notes"} : add_comment(sl, "Nice post", NULL)
    \/ \E sl \in PostSlugs : delete_post(sl)
    \/ \E c \in {"", "Technology", "Travel"}, t \in {"", "flask"},
          q \in {<<>>, <<"flask">>, <<"welcome">>} : posts(c, t, q)

SpecBlog == InitBlog /\ [][NextBlog]_vars

\* The help desk with two tickets: ann's, in category 1, and one the admin
\* opened, in category 2
InitDesk ==
    /\ app = "helpdesk"
    /\ now = 0
    /\ today = 0
    /\ users = DeskUsers
    /\ session = EmptyDict
    /\ products = [p \in {} |-> NULL]
    /\ sales = <<>>
    /\ sale_items = <<>>
    /\ projects = <<>>
    /\ checkpoints = <<>>
    /\ \E agent \in {0, 2}, status \in {"open", "closed"} :
         tables = [HelpdeskTables EXCEPT !.tickets =
                     << DeskTicket(1, 3, "open", "high", 1, agent),
                        DeskTicket(2, 1, status, "low", 2, 2) >>]
    /\ conns = <<>>
    /\ requests = <<>>
    /\ fs = EmptyDict
    /\ resp = [NoResp EXCEPT !.pre = Snapshot]

DeskCredentials ==
    Credentials \cup { [username |-> <<"bob">>, password |-> <<"pw">>] }

DeskTicketIds == {1, 2}

NextDesk ==
    \/ \E c \in DeskCredentials : login_helpdesk(c.username, c.password)
    \/ \E st \in {"", "open"}, pr \in {"", "high"}, cat \in {"", "2"} :
         tickets(st, pr, cat)
    \/ \E id \in DeskTicketIds, st \in {"", "resolved"}, agent \in {"", "2"} :
         update_ticket(id, st, "", agent)
    \/ \E id \in DeskTicketIds : respond_to_ticket(id, "Looking into it")
    \/ \E id \in DeskTicketIds : view_ticket(id)

SpecDesk == InitDesk /\ [][NextDesk]_vars

InitLikes ==
    /\ app = "discussion"
    /\ now = 0
    /\ today = 0
    /\ users = <<DiscussionAdmin>>
    /\ session = EmptyDict
    /\ products = [p \in {} |-> NULL]
    /\ sales = <<>>
    /\ sale_items = <<>>
    /\ projects = <<>>
    /\ checkpoints = <<>>
    /\ tables = DiscussionTables
    /\ conns = <<>>
    /\ requests = [w \in Workers |-> NoLikeRequest]
    /\ fs = EmptyDict
    /\ resp = [NoResp EXCEPT !.pre = Snapshot]

NextLikes ==
    \/ \E w \in Workers, type \in {"thread", "post", "comment"}, id \in {1, 2} :
         like_select(w, type, id)
    \/ \E w \in Workers : like_write(w)

SpecLikes == InitLikes /\ [][NextLikes]_vars

-----------------------------------------------------------------------------
(* Properties of the school store checkout *)

LastCheckout == resp.handler = "checkout" /\ resp.outcome = "json"

\* A checkout in which some statement raised
CheckoutStatementFailed ==
    /\ LastCheckout
    /\ resp.stage \in {"sale_header", "line_item", "stock_update", "commit"}

\* Units of product p a cart asks for, over all its lines
RECURSIVE CartQuantity(_, _)
CartQuantity(cart, p) ==
    IF cart = <<>> THEN 0
    ELSE (IF Head(cart).has_id /\ Head(cart).id = p THEN Head(cart).quantity ELSE 0)
         + CartQuantity(Tail(cart), p)

\* Sum over the cart's lines of quantity x unit price
RECURSIVE CartValue(_)
CartValue(cart) ==
    IF cart = <<>> THEN 0
    ELSE Head(cart).quantity * Head(cart).price + CartValue(Tail(cart))

\* C1: checkout is all-or-nothing: when any statement of a checkout fails (the
\* sale header insert, a line-item insert, a stock update, the commit), the
\* response reports success = false and the sales, sale_items and products
\* tables are exactly as they were before the request.
C1_CheckoutAllOrNothing ==
    CheckoutStatementFailed =>
        /\ ~resp.success
        /\ sales = resp.pre.sales
        /\ sale_items = resp.pre.sale_items
        /\ products = resp.pre.products

\* A checkout of two lines failed at the stock update of its second line, after
\* the header, both line items and the first stock update had been executed
C1_Witness ==
    /\ CheckoutStatementFailed
    /\ resp.stage = "stock_update"
    /\ resp.fault = 5

\* C2: a successful checkout of a non-empty cart adds one sale whose
\* total_amount is the sum of quantity x unit price over the cart lines, adds
\* exactly one sale_items row per cart line (in cart order, under the new sale's
\* id), lowers the stock of every product by the quantity the cart holds of it,
\* and leaves every other column and every other product as it was.
C2_CheckoutRecordsSale ==
    (LastCheckout /\ resp.success) =>
        LET cart == resp.cart
            n    == Len(cart)
            m    == Len(resp.pre.sale_items)
        IN  /\ n > 0
            /\ Len(sales) = Len(resp.pre.sales) + 1
            /\ SubSeq(sales, 1, Len(resp.pre.sales)) = resp.pre.sales
            /\ sales[Len(sales)].total_amount = CartValue(cart)
            /\ Len(sale_items) = m + n
            /\ SubSeq(sale_items, 1, m) = resp.pre.sale_items
            /\ \A k \in 1..n :
                 /\ sale_items[m + k].sale_id = sales[Len(sales)].id
                 /\ sale_items[m + k].product_id = cart[k].id
                 /\ sale_items[m + k].quantity = cart[k].quantity
                 /\ sale_items[m + k].unit_price = cart[k].price
            /\ DOMAIN products = DOMAIN resp.pre.products
            /\ \A p \in DOMAIN products :
                 /\ products[p].stock_quantity =
                      resp.pre.products[p].stock_quantity - CartQuantity(cart, p)
                 /\ products[p].price = resp.pre.products[p].price

\* The spec's example: quantities 2 and 3 at $5 and $10 recorded as a $40 sale
C2_Witness ==
    /\ LastCheckout /\ resp.success
    /\ Len(resp.cart) = 2
    /\ resp.cart[1].quantity = 2 /\ resp.cart[1].price = 5
    /\ resp.cart[2].quantity = 3 /\ resp.cart[2].price = 10
    /\ sales[Len(sales)].total_amount = 40
    /\ 2 \in DOMAIN products

\* C3 (as claimed): the same cart submitted again right after a completed
\* checkout, with the database raising nowhere, completes as a second sale with
\* a transaction id of its own and lowers the stock a second time.
C3_ResubmissionCompletes ==
    (LastCheckout /\ resp.retry /\ resp.fault = 0) =>
        /\ resp.success
        /\ Len(sales) = Len(resp.pre.sales) + 1
        /\ sales[Len(sales)].transaction_id
             # sales[Len(sales) - 1].transaction_id
        /\ \A p \in DOMAIN products :
             products[p].stock_quantity =
               resp.pre.products[p].stock_quantity - CartQuantity(resp.cart, p)

\* C4: checkout checks no stock level: a stock update never fails unless the
\* database itself raises, and a completed checkout that asks for more of a
\* product than is in stock leaves that product's stock_quantity negative.
C4_NoStockSufficiencyCheck ==
    /\ (LastCheckout /\ resp.stage = "stock_update") => resp.fault # 0
    /\ (LastCheckout /\ resp.success) =>
         \A p \in DOMAIN products :
           CartQuantity(resp.cart, p) > resp.pre.products[p].stock_quantity =>
             /\ products[p].stock_quantity < 0
             /\ products[p].stock_quantity =
                  resp.pre.products[p].stock_quantity - CartQuantity(resp.cart, p)

\* A completed checkout took product 2 from a non-negative stock below zero
C4_Witness ==
    /\ LastCheckout /\ resp.success
    /\ 2 \in DOMAIN products
    /\ resp.pre.products[2].stock_quantity >= 0
    /\ CartQuantity(resp.cart, 2) > resp.pre.products[2].stock_quantity
    /\ products[2].stock_quantity < 0

-----------------------------------------------------------------------------
(* Properties of the checkpoint generator *)

LastCreateCheckpoints == resp.handler = "create_checkpoints" /\ resp.success

\* The checkpoints the last call inserted
NewCheckpoints ==
    SubSeq(checkpoints, Len(resp.pre.checkpoints) + 1, Len(checkpoints))

\* Days from creation day to the due date the last call was given: the offset
\* whose calendar date prints as that due date
DaysToDue ==
    CHOOSE d \in (0 - 1)..(MaxDuration + 1) : strftime_date(today + d) = resp.form[2]

\* C5: the number of checkpoints depends only on the days between creation day
\* and due date: 2 up to 7 days, 3 for 8 to 14 days, 4 beyond 14 days; they are
\* numbered order_num 1..n and carry the project's id.
C5_CheckpointCount ==
    LastCreateCheckpoints =>
        LET rows == NewCheckpoints
            d    == DaysToDue
        IN  /\ d <= 7 => Len(rows) = 2
            /\ (8 <= d /\ d <= 14) => Len(rows) = 3
            /\ d > 14 => Len(rows) = 4
            /\ \A i \in 1..Len(rows) :
                 /\ rows[i].order_num = i
                 /\ rows[i].project_id = resp.form[1]

\* A 10-day project got exactly 3 checkpoints
C5_Witness ==
    /\ LastCreateCheckpoints
    /\ DaysToDue = 10
    /\ Len(NewCheckpoints) = 3

DateStringLeq(a, b) == a = b \/ DateStringLess(a, b)

\* C6: when the due date is at least one day after creation day, the
\* checkpoint due dates are strictly increasing in order_num order, none is
\* before creation day or after the project's due date, and the last one is the
\* project's due date.
C6_CheckpointDatesIncrease ==
    (LastCreateCheckpoints /\ DaysToDue >= 1) =>
        LET rows == NewCheckpoints
            n    == Len(rows)
        IN  /\ \A i \in 1..(n - 1) :
                 DateStringLess(rows[i].due_date, rows[i + 1].due_date)
            /\ \A i \in 1..n :
                 /\ DateStringLeq(strftime_date(today), rows[i].due_date)
                 /\ DateStringLeq(rows[i].due_date, resp.form[2])
            /\ rows[n].due_date = resp.form[2]

\* A 10-day project whose checkpoints run across the end of a month
C6_Witness ==
    /\ LastCreateCheckpoints
    /\ DaysToDue = 10
    /\ NewCheckpoints[1].due_date[2] # NewCheckpoints[3].due_date[2]

\* C7: every checkpoint gets floor(total_points / n) points, n being the number
\* of checkpoints; the points add up to total_points - (total_points mod n),
\* which is never more than total_points.
C7_CheckpointPointsTruncate ==
    LastCreateCheckpoints =>
        LET rows  == NewCheckpoints
            n     == Len(rows)
            total == resp.form[3]
            sum   == SeqSum([i \in 1..n |-> rows[i].points])
        IN  /\ \A i \in 1..n :
                 /\ n * rows[i].points <= total
                 /\ total < n * (rows[i].points + 1)
            /\ sum = total - (total % n)
            /\ sum <= total

\* 100 points over 3 checkpoints: 33 + 33 + 33 = 99
C7_Witness ==
    /\ LastCreateCheckpoints
    /\ resp.form[3] = 100
    /\ Len(NewCheckpoints) = 3
    /\ \A i \in 1..3 : NewCheckpoints[i].points = 33
    /\ SeqSum([i \in 1..3 |-> NewCheckpoints[i].points]) = 99

-----------------------------------------------------------------------------
(* Properties of registration and login *)

\* The username a handler works with: the basic CRUD app and the starter
\* template trim the form field, the other apps take it as sent
SubmittedUsername ==
    IF app \in {"crud", "template"} THEN strip(resp.form.username)
    ELSE resp.form.username

LastRegister == resp.handler = "register"

\* The last registration named a username some user already has or, in the
\* help desk and the blog, an email some user already has
DuplicateRegistration ==
    /\ LastRegister
    /\ \E i \in 1..Len(resp.pre.users) :
         \/ resp.pre.users[i].username = SubmittedUsername
         \/ /\ app \in {"helpdesk", "blog"}
            /\ resp.pre.users[i].email = resp.form.email

\* The response reports an error and does not send the browser to the index
ErrorOutcome ==
    /\ resp.outcome # "redirect_index"
    /\ \/ resp.error # ""
       \/ resp.flashed # <<>> /\ resp.flashed[1] = "error"

\* C8: a registration whose username (or, in the help desk and the blog, whose
\* email) is already some user's is answered with an error and adds no row;
\* hence the usernames in the users table are always pairwise distinct.
C8_DuplicateRegistrationRejected ==
    /\ DuplicateRegistration => ErrorOutcome /\ users = resp.pre.users
    /\ \A i, j \in 1..Len(users) :
         users[i].username = users[j].username => i = j

\* A help desk registration under a new username with another user's email
C8_Witness ==
    /\ DuplicateRegistration
    /\ app = "helpdesk"
    /\ Len(users) >= 2
    /\ \A i \in 1..Len(users) : users[i].username # SubmittedUsername

LastLogin == resp.handler = "login"

\* The password a handler compares: trimmed where the handler trims it
SubmittedPassword ==
    IF app \in {"crud", "template"} THEN strip(resp.form.password)
    ELSE resp.form.password

\* The users, as they were when the last login arrived, whose username and
\* password are the submitted pair
MatchingUsers ==
    { i \in 1..Len(resp.pre.users) :
        /\ resp.pre.users[i].username = SubmittedUsername
        /\ IF app = "template"
           THEN check_password_hash(resp.pre.users[i].password_hash,
                                    SubmittedPassword)
           ELSE resp.pre.users[i].password = SubmittedPassword }

MatchedUser == resp.pre.users[CHOOSE i \in MatchingUsers : TRUE]

\* The session key and users column that hold an app's role
RoleKey ==
    CASE app = "crud" -> "status"
      [] app = "blog" -> "is_admin"
      [] OTHER -> "role"

SessionHolds(key, column) ==
    /\ key \in DOMAIN session
    /\ column \in DOMAIN MatchedUser
    /\ session[key] = MatchedUser[column]

-----------------------------------------------------------------------------
(* Properties of the privileged handlers *)

LastPrivileged ==
    resp.handler \in {"admin_dashboard", "edit_user",
                      "toggle_pin_thread", "delete_thread"}

\* The session the last request came with belongs to a logged-in admin
CameAsAdmin ==
    /\ HasUserId(resp.pre.session)
    /\ RoleKey \in DOMAIN resp.pre.session
    /\ IF app = "blog" THEN resp.pre.session[RoleKey] = 1
       ELSE resp.pre.session[RoleKey] = "admin"

\* C11: a request to a privileged handler from a session without the admin
\* role changes no table, does not render the privileged page and is
\* redirected to the login page.
C11_PrivilegedNeedsRole ==
    (LastPrivileged /\ ~CameAsAdmin) =>
        /\ users = resp.pre.users
        /\ tables = resp.pre.tables
        /\ resp.outcome = "redirect_login"

-----------------------------------------------------------------------------
(* Properties of the basic CRUD app's items routes *)

IsBlank(str) == \A i \in 1..Len(str) : str[i] = " "

\* trimmed is str without its leading and trailing whitespace
IsTrimOf(trimmed, str) ==
    /\ trimmed # <<>> => trimmed[1] # " " /\ trimmed[Len(trimmed)] # " "
    /\ \E a, b \in 0..Len(str) :
         /\ a + Len(trimmed) + b = Len(str)
         /\ \A i \in 1..a : str[i] = " "
         /\ \A i \in 1..b : str[Len(str) + 1 - i] = " "
         /\ \A i \in 1..Len(trimmed) : trimmed[i] = str[a + i]

LastCreate == resp.handler = "create"

\* C12: a create POST whose name and description are both non-empty after
\* trimming adds exactly one items row, holding the submitted name and
\* description without their leading and trailing whitespace, and changes no
\* other row; a create POST with a blank name or description adds no row.
C12_CreateStoresTrimmedItem ==
    LastCreate =>
        LET old == resp.pre.tables.items
            new == tables.items
        IN  IF IsBlank(resp.form.name) \/ IsBlank(resp.form.description)
            THEN new = old
            ELSE /\ Len(new) = Len(old) + 1
                 /\ SubSeq(new, 1, Len(old)) = old
                 /\ IsTrimOf(new[Len(new)].name, resp.form.name)
                 /\ IsTrimOf(new[Len(new)].description, resp.form.description)
                 /\ \A i \in 1..Len(old) : new[Len(new)].id # old[i].id

\* A second item is created from fields padded with whitespace
C12_Witness ==
    /\ LastCreate
    /\ Len(tables.items) = 2
    /\ Len(resp.pre.tables.items) = 1
    /\ resp.form.name = <<" ", "pen", " ">>
    /\ resp.form.description = <<"blue", " ", "ink", " ">>
    /\ tables.items[2].description = <<"blue", " ", "ink">>

LastDelete == resp.handler = "delete"

\* C13: delete(item_id) for an id that is not in items leaves the items table
\* as it was and answers with the redirect to the index page, without error.
C13_DeleteMissingIsNoOp ==
    (/\ LastDelete
     /\ \A i \in 1..Len(resp.pre.tables.items) :
          resp.pre.tables.items[i].id # resp.form.id) =>
        /\ tables.items = resp.pre.tables.items
        /\ resp.outcome = "redirect_index"
        /\ ~ErrorOutcome

\* Item 2 is deleted a second time while item 1 is still there
C13_Witness ==
    /\ LastDelete
    /\ resp.form.id = 2
    /\ tables.sqlite_sequence.items = 2
    /\ Len(resp.pre.tables.items) = 1
    /\ resp.pre.tables.items[1].id = 1
    /\ Len(tables.items) = 1

-----------------------------------------------------------------------------
(* Properties of connection handling *)

\* C14: every handler closes the connection it opened before it returns, on
\* every exit path, so no connection and no uncommitted write is left open
\* once a request has been answered.
C14_ConnectionsClosed ==
    conns = <<>>

-----------------------------------------------------------------------------
(* Properties of concurrent checkouts *)

BothSucceeded == \A w \in Workers : requests[w].result = "success"

\* What a cart takes of product p
Purchased(items, p) ==
    SeqSum([i \in 1..Len(items) |->
              IF items[i].has_id /\ items[i].id = p THEN items[i].quantity ELSE 0])

InBothCarts(p) == \A w \in Workers : Purchased(requests[w].items, p) > 0

\* C15: when two concurrent checkouts both succeed, every product that is in
\* both carts ends with its initial stock minus the two purchased quantities,
\* however the two requests' steps interleave.
C15_NoLostDecrement ==
    BothSucceeded =>
        \A p \in DOMAIN products :
            InBothCarts(p) =>
                products[p].stock_quantity =
                    resp.pre.products[p].stock_quantity
                      - Purchased(requests[1].items, p)
                      - Purchased(requests[2].items, p)

\* Both requests were in flight together (the second arrived before the first
\* committed, so it got a transaction id after the first) and both sold
\* product 1
C15_Witness ==
    /\ BothSucceeded
    /\ InBothCarts(1)
    /\ Len(sales) = 2
    /\ sales[1].transaction_id # sales[2].transaction_id
    /\ products[1].stock_quantity < resp.pre.products[1].stock_quantity - 2

-----------------------------------------------------------------------------
(* Properties of the schema initializers *)

LastInit == resp.handler \in {"init_database", "init_db"}

SeedCategories ==
    CASE app = "helpdesk" -> HelpdeskCategories
      [] app = "store" -> StoreCategories
      [] OTHER -> DiscussionCategories

\* How many rows have this value in this column
CountWhere(rows, column, value) ==
    Cardinality({ i \in 1..Len(rows) : rows[i][column] = value })

\* C16: running the initializer on an initialized database changes no table,
\* so each default category and the default admin account are there exactly
\* once after any number of runs.
C16_InitializerIdempotent ==
    /\ LastInit => users = resp.pre.users /\ tables = resp.pre.tables
    /\ \A k \in 1..Len(SeedCategories) :
         CountWhere(tables.categories, "name", SeedCategories[k].name) = 1
    /\ CountWhere(users, "username", <<"admin">>) = 1

-----------------------------------------------------------------------------
(* Responses, comments and replies *)

\* The child records of the running application: help desk responses, blog
\* comments, discussion-board reply posts
ChildRows(t) ==
    CASE app = "helpdesk" -> t.responses
      [] app = "blog" -> t.comments
      [] OTHER -> t.posts

RowSet(rows) == { rows[i] : i \in 1..Len(rows) }

Ascending(rows) ==
    \A i, j \in 1..Len(rows) :
      i < j => rows[i].created_at <= rows[j].created_at

ListsChildren ==
    resp.handler \in {"view_ticket", "view_post", "view_thread"}

\* The listing a page shows holds stored child records, oldest first
ListedAscending ==
    ListsChildren =>
      /\ Ascending(resp.listing)
      /\ RowSet(resp.listing) \subseteq RowSet(ChildRows(tables))

\* The request that was just answered deleted the parent the row belongs to
DeletedWithParent(r) ==
    \/ /\ app = "blog"
       /\ resp.handler = "delete_post"
       /\ resp.success
       /\ SelectBySlug(resp.pre.tables.posts, resp.form[1]) # <<>>
       /\ SelectBySlug(resp.pre.tables.posts, resp.form[1])[1].id = r.post_id
       /\ SelectBySlug(tables.posts, resp.form[1]) = <<>>
    \/ /\ app = "discussion"
       /\ resp.handler = "delete_thread"
       /\ resp.form[1] = r.thread_id
       /\ SelectById(tables.threads, r.thread_id) = <<>>

\* C17 (as stated): once a help desk response, a blog comment or a
\* discussion-board reply has been inserted, no handler modifies or deletes
\* it, and such records are listed in ascending creation time.
C17_AppendOnly ==
    [][ /\ RowSet(ChildRows(tables)) \subseteq RowSet(ChildRows(tables'))
        /\ ListedAscending' ]_vars

\* C17 (amended): no handler modifies a response, a comment or a reply; a
\* help desk response is never deleted; a blog comment or a discussion reply
\* is deleted only by delete_post or delete_thread, together with the post or
\* thread it belongs to; view_ticket, view_post and view_thread list the
\* records in ascending creation time.
C17_AppendOnlyUntilParentDeleted ==
    [][ /\ \A r \in RowSet(ChildRows(tables)) :
             \/ r \in RowSet(ChildRows(tables'))
             \/ DeletedWithParent(r)'
        /\ ListedAscending' ]_vars

\* A page listed two records created at different times
C17_Witness ==
    /\ ListsChildren
    /\ Len(resp.listing) >= 2
    /\ resp.listing[1].created_at < resp.listing[2].created_at

-----------------------------------------------------------------------------
(* Help desk: ticket status *)

\* The last request was an update_ticket by a signed-in agent or admin that
\* named an existing ticket and one of the four statuses
AuthorizedStatusUpdate ==
    /\ resp.handler = "update_ticket"
    /\ HasUserId(resp.pre.session)
    /\ SelectById(resp.pre.users, resp.pre.session["user_id"]) # <<>>
    /\ SelectById(resp.pre.users, resp.pre.session["user_id"])[1].role
          \in {"agent", "admin"}
    /\ SelectById(resp.pre.tables.tickets, resp.form[1]) # <<>>
    /\ resp.form[2] \in TicketStatuses

\* C18: from any of the statuses open, in_progress, resolved and closed, an
\* agent or admin sets any of those four statuses with one update_ticket
\* request, and the update takes effect.
C18_StatusTransitionsUnconstrained ==
    AuthorizedStatusUpdate =>
      /\ resp.success
      /\ SelectById(tables.tickets, resp.form[1]) # <<>>
      /\ SelectById(tables.tickets, resp.form[1])[1].status = resp.form[2]

\* A closed ticket was reopened
C18_Witness ==
    /\ AuthorizedStatusUpdate
    /\ SelectById(resp.pre.tables.tickets, resp.form[1])[1].status = "closed"
    /\ resp.form[2] = "open"
    /\ SelectById(tables.tickets, resp.form[1])[1].status = "open"

-----------------------------------------------------------------------------
(* Project tracker: creating a project *)

\* The last request was a create_project POST with a title, a class and a
\* due date that strptime accepts
CompleteProjectForm ==
    /\ resp.handler = "create_project"
    /\ resp.form[1] # ""
    /\ resp.form[2] # <<>>
    /\ ValidDateString(resp.form[2])

CheckpointsOf(project_id) ==
    SelectSeq(checkpoints, LAMBDA c : c.project_id = project_id)

\* C19: a create_project POST with a title, a class and a valid due date
\* completes with the project row and its 2 to 4 checkpoint rows committed.
C19_CreateProjectCommitsAll ==
    CompleteProjectForm =>
      /\ resp.success
      /\ Len(projects) = Len(resp.pre.projects) + 1
      /\ Len(CheckpointsOf(Len(projects))) \in 2..4

-----------------------------------------------------------------------------
(* update_database.py: the old database and its backup *)

HoldsRecords(db) == db.exists /\ \E t \in DOMAIN db.rows : db.rows[t] >= 1

\* The last run of main removed the database file it found
RemovedDatabase ==
    /\ resp.handler = "main"
    /\ resp.outcome \in {"updated_without_backup", "updated_with_backup"}

BackedUp(db) == \E k \in DOMAIN fs.backups : fs.backups[k] = db

\* C20: main never removes an existing database that holds at least one
\* record unless the new schema passed validation and a backup copy of that
\* database was written first.
C20_RemovedOnlyAfterBackup ==
    (RemovedDatabase /\ HoldsRecords(resp.pre.fs.db)) =>
      /\ validate_schema_syntax(resp.pre.fs).ok
      /\ BackedUp(resp.pre.fs.db)

-----------------------------------------------------------------------------
(* Blog: deleting a post, listing posts *)

\* The post the last delete_post request named, as the request found it
NamedPost == SelectBySlug(resp.pre.tables.posts, resp.form[1])

\* The requester was logged in as the post's author or as an admin
AuthorOrAdmin ==
    /\ HasUserId(resp.pre.session)
    /\ \/ NamedPost[1].author_id = resp.pre.session["user_id"]
       \/ resp.pre.session["is_admin"] = 1

PostAndChildrenGone(post_id) ==
    /\ SelectById(tables.posts, post_id) = <<>>
    /\ \A i \in 1..Len(tables.comments) : tables.comments[i].post_id # post_id
    /\ \A i \in 1..Len(tables.post_tags) : tables.post_tags[i].post_id # post_id

\* C21: delete_post deletes the post with its comments and post_tags rows
\* when the logged-in user is the post's author or an admin, and leaves all
\* tables unchanged when the requester is neither or is not logged in.
C21_DeletePostByAuthorOrAdmin ==
    (resp.handler = "delete_post" /\ NamedPost # <<>>) =>
      IF AuthorOrAdmin
      THEN PostAndChildrenGone(NamedPost[1].id)
      ELSE tables = resp.pre.tables

\* The posts a request to posts() may show: published ones and the session
\* user's own drafts
VisiblePost(post) ==
    \/ post.status = "published"
    \/ /\ post.status = "draft"
       /\ post.author_id = SessionUserId(resp.pre.session)

\* The post matches every filter the request supplied
MatchesFilters(post) ==
    /\ resp.form[1] # "" => CategoryName(tables, post) = resp.form[1]
    /\ resp.form[2] # "" => HasTag(tables, post, resp.form[2])
    /\ resp.form[3] # <<>> =>
         \/ Like(post.title, resp.form[3])
         \/ Like(post.content, resp.form[3])
         \/ Like(post.excerpt, resp.form[3])

\* C23: posts() returns only posts that are published or the session user's
\* drafts, and with a category, tag or search filter only those that also
\* match every supplied filter.
C23_PostsVisibleAndFiltered ==
    resp.handler = "posts" =>
      \A i \in 1..Len(resp.listing) :
        /\ VisiblePost(resp.listing[i])
        /\ MatchesFilters(resp.listing[i])

-----------------------------------------------------------------------------
(* Help desk: who sees and changes which ticket *)

\* The role of the user whose session made the last request ("" without one)
RequesterRole ==
    IF HasUserId(resp.pre.session)
       /\ SelectById(resp.pre.users, resp.pre.session["user_id"]) # <<>>
    THEN SelectById(resp.pre.users, resp.pre.session["user_id"])[1].role
    ELSE ""

RequesterId == SessionUserId(resp.pre.session)

\* All tickets for the admin, assigned ones for an agent, own ones for a
\* customer
VisibleTicket(ticket) ==
    CASE RequesterRole = "admin" -> TRUE
      [] RequesterRole = "agent" -> ticket.assigned_agent_id = RequesterId
      [] OTHER -> ticket.customer_id = RequesterId

\* The ticket matches every filter the last request supplied
MatchesTicketFilters(ticket) ==
    /\ resp.form[1] # "" => ticket.status = resp.form[1]
    /\ resp.form[2] # "" => ticket.priority = resp.form[2]
    /\ resp.form[3] # "" => ticket.category_id = IntegerAffinity(resp.form[3])

\* C22: tickets() with any combination of the status, priority and category
\* filters returns, for every role, exactly the tickets visible to that role
\* that match all supplied filters.
C22_TicketsVisibleAndFiltered ==
    (resp.handler = "tickets" /\ resp.outcome = "render_tickets") =>
      RowSet(resp.listing) =
        { t \in RowSet(tables.tickets) :
            VisibleTicket(t) /\ MatchesTicketFilters(t) }

AgentIdsUnchanged ==
    /\ Len(tables.tickets) = Len(resp.pre.tables.tickets)
    /\ \A k \in 1..Len(tables.tickets) :
         tables.tickets[k].assigned_agent_id =
           resp.pre.tables.tickets[k].assigned_agent_id

\* C24: update_ticket changes a ticket only when the session user's role is
\* agent or admin, and changes assigned_agent_id only when the role is admin;
\* a customer's request leaves every ticket row unchanged.
C24_UpdateTicketByRole ==
    resp.handler = "update_ticket" =>
      /\ RequesterRole \notin {"agent", "admin"} =>
           tables.tickets = resp.pre.tables.tickets
      /\ RequesterRole # "admin" => AgentIdsUnchanged

\* An agent sent a status and an assignment: the status was written, the
\* assignment was not
C24_Witness ==
    /\ resp.handler = "update_ticket"
    /\ RequesterRole = "agent"
    /\ resp.form[2] = "resolved"
    /\ resp.form[4] = "2"
    /\ SelectById(resp.pre.tables.tickets, resp.form[1])[1].assigned_agent_id = 0
    /\ SelectById(resp.pre.tables.tickets, resp.form[1])[1].status = "open"
    /\ SelectById(tables.tickets, resp.form[1])[1].status = "resolved"
    /\ SelectById(tables.tickets, resp.form[1])[1].assigned_agent_id = 0

AcceptedResponse ==
    /\ resp.handler = "respond_to_ticket"
    /\ resp.outcome = "redirect_view_ticket"
    /\ resp.success

\* C25: an accepted respond_to_ticket request inserts exactly one responses
\* row; the status becomes in_progress if the responder is an agent or admin
\* and the ticket was open, and is left unchanged for a customer or for a
\* ticket in any other status.
C25_ResponseInsertedStatusMoved ==
    AcceptedResponse =>
      LET before == SelectById(resp.pre.tables.tickets, resp.form[1])[1]
          after  == SelectById(tables.tickets, resp.form[1])[1]
          added  == tables.responses[Len(tables.responses)]
      IN  /\ Len(tables.responses) = Len(resp.pre.tables.responses) + 1
          /\ SubSeq(tables.responses, 1, Len(tables.responses) - 1)
               = resp.pre.tables.responses
          /\ added.ticket_id = resp.form[1]
          /\ added.user_id = RequesterId
          /\ added.message = resp.form[2]
          /\ after.status =
               IF RequesterRole \in {"agent", "admin"} /\ before.status = "open"
               THEN "in_progress" ELSE before.status

\* A customer responded on their open ticket and it stayed open
C25_Witness ==
    /\ AcceptedResponse
    /\ RequesterRole = "customer"
    /\ SelectById(resp.pre.tables.tickets, resp.form[1])[1].status = "open"
    /\ SelectById(tables.tickets, resp.form[1])[1].status = "open"
    /\ Len(tables.responses) = Len(resp.pre.tables.responses) + 1

\* The last request was a customer's view_ticket or respond_to_ticket for a
\* ticket of somebody else
ForeignTicketRequest ==
    /\ resp.handler \in {"view_ticket", "respond_to_ticket"}
    /\ RequesterRole = "customer"
    /\ SelectById(resp.pre.tables.tickets, resp.form[1]) # <<>>
    /\ SelectById(resp.pre.tables.tickets, resp.form[1])[1].customer_id
         # RequesterId

\* C26: for a ticket whose customer_id is not their own id, a customer's
\* view_ticket shows nothing of it and respond_to_ticket inserts no
\* responses row and leaves the ticket unchanged.
C26_CustomerOwnTicketsOnly ==
    ForeignTicketRequest =>
      /\ resp.outcome = "redirect_tickets"
      /\ resp.listing = <<>>
      /\ tables = resp.pre.tables

\* ann asked to respond on the admin's ticket and was turned away
C26_Witness ==
    /\ ForeignTicketRequest
    /\ resp.handler = "respond_to_ticket"
    /\ resp.form[2] # ""
    /\ resp.flashed = flash("Access denied", "error")
    /\ tables.responses = resp.pre.tables.responses

-----------------------------------------------------------------------------
(* Basic CRUD app: a demoted admin *)

\* The last request went to admin_dashboard or edit_user under the session of
\* a user whose row in the users table says guest.  A session is made at
\* login, so with the session still holding admin the row was changed by
\* edit_user after the session was established.
RequestByGuestUser ==
    /\ app = "crud"
    /\ resp.handler \in {"admin_dashboard", "edit_user"}
    /\ HasUserId(resp.pre.session)
    /\ SelectById(resp.pre.users, resp.pre.session["user_id"]) # <<>>
    /\ SelectById(resp.pre.users, resp.pre.session["user_id"])[1].status = "guest"

\* C27: once edit_user has changed a user's status from admin to guest, every
\* later request by that user to admin_dashboard or edit_user is redirected
\* to login, also under a session established before the change.
C27_DemotedAdminRedirected ==
    RequestByGuestUser => resp.outcome = "redirect_login"

-----------------------------------------------------------------------------
(* Discussion board: likes *)

\* C28: after any interleaving of like requests there is at most one likes
\* row per (user, thread) and per (user, post).
C28_AtMostOneLikePerItem ==
    \A i, j \in 1..Len(tables.likes) :
      ( /\ tables.likes[i].user_id = tables.likes[j].user_id
        /\ tables.likes[i].thread_id = tables.likes[j].thread_id
        /\ tables.likes[i].post_id = tables.likes[j].post_id ) => i = j

====
